---- MODULE Spec2Model ----
(***************************************************************************)
(* Position ledger and summary builder of the profitability analysis:      *)
(* analyzeInstructions, analyzePosition and analyzePositions of            *)
(* src/src/analyze-position.ts, with the helpers of the price fetcher they *)
(* call (priceKey, convertToUiAmount) and the constants of globals.ts.     *)
(***************************************************************************)
EXTENDS Integers, Sequences, FiniteSets, TLC

VARIABLES
    position,      \* address of the position whose events are being decoded
    positionMap,   \* the open position accounts that were fetched
    instructions,  \* the position's DecodedInstruction[] (sorted in place)
    decoded,       \* the list as the decoder handed it over
    pc,            \* where analyzePosition stands
    i,             \* index of the for-of loop of analyzeInstructions
    ledger,        \* the local accumulators of analyzeInstructions
    totals,        \* what analyzeInstructions returned
    summary,       \* what analyzePosition returned
    error,         \* message of the invariant that threw
    positions,     \* analyzePositions: the batch of event lists
    k,             \* analyzePositions: number of lists already mapped
    summaries,     \* analyzePositions: summaries collected so far
    command,       \* run: args.command
    csv,           \* run: whether args.csv is given
    stage,         \* run: the step of the command that is being awaited
    settled,       \* run: how the promise of run() settled
    loading,       \* run: whether the spinner interval is set
    logged,        \* run: number of messages err wrote to stderr
    dropped,       \* run: positions analyzePositions caught and left out
    exitCode,      \* run: the exit code of the process, once it has exited
    cycles,        \* gatherTransactions: args.cycles
    history,       \* RPC: number of signatures the node holds per address
    task,          \* gatherTransactions: state of each address's queue task
    signatures,    \* getSignaturesForAddress: the local array, per address
    calls,         \* RPC: the page requests received, per address, in order
    gatherPc,      \* gatherTransactions: where it stands
    gathered,      \* gatherTransactions: the returned transactions
    keys,          \* fetchPrices: the price keys asked for
    market,        \* CoinGecko: the data points it holds per mint
    waiting,       \* fetchPrices: the mints whose queue task has not settled
    historicalPrices, \* fetchPrices: the series stored per mint
    warned,        \* fetchPrices: the mints a warning was logged for
    pricePc,       \* fetchPrices: where it stands
    fetched,       \* fetchPrices: the returned price map
    includeOpen,   \* analyze: args.includeOpen
    csvPath,       \* analyze: whether args.csv is given
    output,        \* analyze: `summaries` after the include-open filter
    rows,          \* writePositionSummaries: the rows given to the stringifier
    outPc,         \* analyze: where its tail stands
    livePositions, \* fetchPositionOwners: the positions, each with the wallet
                   \* that holds it and whether positionValues has its value
    maximumCount,  \* fetchPositionOwners: the cap, 0 when there is none
    lookup,        \* fetchPositionOwners: the state of each position's task
    ownerMap,      \* fetchPositionOwners: position -> owner
    ownerSet,      \* fetchPositionOwners: the distinct owners seen
    ownersPc,      \* fetchPositionOwners: where it stands
    siblings,      \* decodeTransactions: the instructions of one transaction
    j,             \* decodeTransactions: the inner loop index
    outcomes,      \* decodeTransactions: per index tried, what decodeTransaction
                   \* returned, or nothing when it threw
    decodePc,      \* decodeTransactions: where it stands
    chain,         \* gatherInstructions: what getParsedTransactions answers
                   \* for each signature
    infos,         \* gatherTransactions: the ConfirmedSignatureInfo objects
                   \* of all addresses, flattened
    transactionsAndInfos, \* gatherTransactions: the returned transactions
    cursor,        \* gatherInstructions: transactions already extracted
    extracted,     \* gatherInstructions: the flat list of instructions
    transactionInstructions, \* gatherInstructions: signature -> instructions
    extractPc      \* gatherInstructions: where it stands

ledgerVars == <<position, positionMap, instructions, decoded, pc, i, ledger, totals,
                summary, error, positions, k, summaries>>
runVars == <<command, csv, stage, settled, loading, logged, dropped, exitCode>>
gatherVars == <<cycles, history, task, signatures, calls, gatherPc, gathered>>
priceVars == <<keys, market, waiting, historicalPrices, warned, pricePc, fetched>>
outputVars == <<includeOpen, csvPath, output, rows, outPc>>
ownerVars == <<livePositions, maximumCount, lookup, ownerMap, ownerSet, ownersPc>>
decodeVars == <<siblings, j, outcomes, decodePc>>
extractVars == <<chain, infos, transactionsAndInfos, cursor, extracted,
                 transactionInstructions, extractPc>>
otherVars == <<runVars, gatherVars, priceVars, outputVars, ownerVars, decodeVars,
               extractVars>>

vars == <<ledgerVars, otherVars>>

\* The variables of run() while another part of the program is explored.
RunIdle ==
    /\ command = "analyze"
    /\ csv = FALSE
    /\ stage = "idle"
    /\ settled = "pending"
    /\ loading = FALSE
    /\ logged = 0
    /\ dropped = 0
    /\ exitCode = <<>>

\* The variables of gatherTransactions while another part is explored.
GatherIdle ==
    /\ cycles = 1
    /\ history = <<>>
    /\ task = <<>>
    /\ signatures = <<>>
    /\ calls = <<>>
    /\ gatherPc = "idle"
    /\ gathered = <<>>

\* The variables of fetchPrices while another part is explored.
PricesIdle ==
    /\ keys = <<>>
    /\ market = <<>>
    /\ waiting = {}
    /\ historicalPrices = <<>>
    /\ warned = {}
    /\ pricePc = "idle"
    /\ fetched = <<>>

\* The variables of the tail of analyze() while another part is explored.
OutputIdle ==
    /\ includeOpen = FALSE
    /\ csvPath = FALSE
    /\ output = <<>>
    /\ rows = <<>>
    /\ outPc = "idle"

\* The variables of fetchPositionOwners while another part is explored.
OwnersIdle ==
    /\ livePositions = <<>>
    /\ maximumCount = 0
    /\ lookup = <<>>
    /\ ownerMap = <<>>
    /\ ownerSet = {}
    /\ ownersPc = "idle"

\* The variables of decodeTransactions while another part is explored.
DecodeIdle ==
    /\ siblings = <<>>
    /\ j = 0
    /\ outcomes = <<>>
    /\ decodePc = "idle"

\* The variables of gatherInstructions while another part is explored.
ExtractIdle ==
    /\ chain = <<>>
    /\ infos = <<>>
    /\ transactionsAndInfos = <<>>
    /\ cursor = 0
    /\ extracted = <<>>
    /\ transactionInstructions = <<>>
    /\ extractPc = "idle"

OtherIdle ==
    /\ RunIdle /\ GatherIdle /\ PricesIdle /\ OutputIdle /\ OwnersIdle /\ DecodeIdle
    /\ ExtractIdle

----------------------------------------------------------------------------
(* Bounds of the model. *)

MaxEvents == 3
MaxBatch == 3
MaxCycles == 3
MaxPositions == 3
MaxSiblings == 4

----------------------------------------------------------------------------
(* decimal.js values.  A Decimal is <<n, d>>: the rational n/d in lowest   *)
(* terms when d > 0, and Infinity <<1,0>>, -Infinity <<-1,0>> or NaN       *)
(* <<0,0>> when d = 0.  Quotients are kept exact: the rounding of          *)
(* decimal.js to 20 significant digits is not represented.                 *)

RECURSIVE GCD(_, _)
GCD(a, b) == IF b = 0 THEN a ELSE GCD(b, a % b)

Abs(n) == IF n < 0 THEN -n ELSE n
Sign(n) == IF n < 0 THEN -1 ELSE IF n > 0 THEN 1 ELSE 0

Norm(n, d) ==
    IF d = 0 THEN <<Sign(n), 0>>
    ELSE LET g == GCD(Abs(n), Abs(d))
             s == IF d < 0 THEN -1 ELSE 1
         IN <<s * (Abs(n) \div g) * Sign(n), Abs(d) \div g>>

Dec(n) == <<n, 1>>
Zero == <<0, 1>>
NaN == <<0, 0>>
Infinity == <<1, 0>>

IsFinite(x) == x[2] # 0
IsNaN(x) == x = NaN

Plus(x, y) ==
    IF ~IsFinite(x) \/ ~IsFinite(y)
    THEN Norm(x[1] * y[2] + y[1] * x[2], 0)
    ELSE LET g == GCD(x[2], y[2])
         IN Norm(x[1] * (y[2] \div g) + y[1] * (x[2] \div g), x[2] * (y[2] \div g))

Neg(x) == <<-x[1], x[2]>>

Minus(x, y) == Plus(x, Neg(y))

Mul(x, y) ==
    IF ~IsFinite(x) \/ ~IsFinite(y)
    THEN Norm(x[1] * y[1], 0)
    ELSE LET g1 == GCD(Abs(x[1]), y[2])
             g2 == GCD(Abs(y[1]), x[2])
         IN Norm((x[1] \div g1) * (y[1] \div g2), (x[2] \div g2) * (y[2] \div g1))

\* Decimal.prototype.div: NaN for 0/0 and Infinity/Infinity, +-Infinity for
\* a non-zero dividend over zero, no exception.
Div(x, y) ==
    IF IsNaN(x) \/ IsNaN(y) THEN NaN
    ELSE IF ~IsFinite(x)
         THEN IF ~IsFinite(y) THEN NaN
              ELSE <<x[1] * (IF y[1] < 0 THEN -1 ELSE 1), 0>>
         ELSE IF ~IsFinite(y) THEN Zero
              ELSE IF y[1] = 0 THEN <<Sign(x[1]), 0>>
                   ELSE Mul(x, Norm(y[2] * Sign(y[1]), Abs(y[1])))

\* Decimal.prototype.gte: false as soon as one side is NaN.
Gte(x, y) ==
    IF IsNaN(x) \/ IsNaN(y) THEN FALSE
    ELSE IF ~IsFinite(x) THEN x[1] = 1 \/ x = y
         ELSE IF ~IsFinite(y) THEN y[1] = -1
              ELSE x[1] * y[2] >= y[1] * x[2]

\* Decimal.max: NaN when an argument is NaN.
Max(x, y) ==
    IF IsNaN(x) \/ IsNaN(y) THEN NaN
    ELSE IF Gte(x, y) THEN x ELSE y

RECURSIVE Pow10(_)
Pow10(e) == IF e = 0 THEN 1 ELSE 10 * Pow10(e - 1)

convertToUiAmount(amount, decimals) == Div(Dec(amount), Dec(Pow10(decimals)))

----------------------------------------------------------------------------
(* The lookup tables handed to the ledger: tokenMap, poolMap, positionMap  *)
(* and priceMap are read-only inputs, fully populated before accounting.   *)

NATIVE_MINT == "SOL"

\* globals.ts
RECLAIMABLE_RENT_LAMPORTS == 2394240 + 2039280
CLOSE_TRANSACTION_LAMPORTS == 10000
PAYABLE_RENT_LAMPORTS_WITHOUT_METADATA == 2394240 + 1461600 + 2039280
PAYABLE_RENT_LAMPORTS == 2394240 + 1461600 + 2039280 + 15616720

\* Token metadata (mint -> decimals) as the token fetcher returned it.  The
\* native mint has 9 decimals on chain; 6 here keeps lamport values times
\* prices within the integers of the model checker.
tokenMap ==
    [m \in {"SOL", "A", "B", "C", "R"} |->
        [mint |-> m,
         decimals |-> CASE m = "SOL" -> 6 [] m = "A" -> 1 [] m = "B" -> 2
                        [] m = "C" -> 1 [] m = "R" -> 0]]

\* Whirlpool.getData() of the pools that were fetched.
poolMap ==
    [w \in {"pool", "pool2"} |->
        [tokenMintA |-> IF w = "pool" THEN "A" ELSE "C",
         tokenMintB |-> "B",
         rewardInfos |-> <<"R">>]]

\* An open position account with the quotes the whirlpool SDK computes for
\* it (decreaseLiquidityQuote, collectFeesQuote, collectRewardsQuote).
OpenAccount ==
    [tokenEstA |-> 30, tokenEstB |-> 0,
     feeOwedA |-> 10, feeOwedB |-> 100,
     rewardOwed |-> <<2>>]

\* What fetchPositionsForInstructions can return: the accounts that still
\* exist among the positions of the events.
PositionMaps(addresses) == UNION {[held -> {OpenAccount}] : held \in SUBSET addresses}

\* priceKey(mint, time): the mint alone when time is 0 or absent.
priceKey(mint, time) == <<mint, time>>
\* Variant: the key of the price at the first block time.
firstEventKey(mint) == priceKey(mint, 1)

currentKey(mint) == priceKey(mint, 0)

\* The price map fetchPrices built: no entry at all for mint "C".
priceMap ==
    [key \in {"SOL", "A", "B", "R"} \X {0, 1, 2} |->
        CASE key = <<"SOL", 1>> -> Dec(1)
          [] key = <<"SOL", 2>> -> Dec(2)
          [] key = <<"SOL", 0>> -> Dec(2)
          [] key = <<"A", 1>> -> Dec(1)
          [] key = <<"A", 2>> -> <<11, 10>>
          [] key = <<"A", 0>> -> Dec(2)
          [] key = <<"B", 1>> -> Dec(2)
          [] key = <<"B", 2>> -> Dec(2)
          [] key = <<"B", 0>> -> Dec(4)
          [] key = <<"R", 1>> -> Dec(1)
          [] key = <<"R", 2>> -> Dec(3)
          [] key = <<"R", 0>> -> Dec(3)]

HasPrice(key) == key \in DOMAIN priceMap

----------------------------------------------------------------------------
(* Decoded instructions.  Every event carries the signature, block time    *)
(* and fee of the transaction it was extracted from.                       *)

Transactions ==
    [s \in {"s1", "s2"} |->
        [blockTime |-> IF s = "s1" THEN 1 ELSE 2, fee |-> 5000]]

Signatures == DOMAIN Transactions

Gathered(sig) ==
    [signature |-> sig,
     blockTime |-> Transactions[sig].blockTime,
     transactionFee |-> Transactions[sig].fee]

OpenPositionInstruction(sig, w, p, rent) ==
    [type |-> "openPosition", whirlpool |-> w, position |-> p,
     rentFee |-> rent] @@ Gathered(sig)

IncreaseLiquidityInstruction(sig, w, p, liq, a, b) ==
    [type |-> "increaseLiquidity", whirlpool |-> w, position |-> p,
     liquidityIn |-> liq, tokenAIn |-> a, tokenBIn |-> b] @@ Gathered(sig)

DecreaseLiquidityInstruction(sig, w, p, liq, a, b) ==
    [type |-> "decreaseLiquidity", whirlpool |-> w, position |-> p,
     liquidityOut |-> liq, tokenAOut |-> a, tokenBOut |-> b] @@ Gathered(sig)

CollectFeesInstruction(sig, w, p, a, b) ==
    [type |-> "collectFees", whirlpool |-> w, position |-> p,
     tokenAFee |-> a, tokenBFee |-> b] @@ Gathered(sig)

CollectRewardInstruction(sig, w, p, mint, amount) ==
    [type |-> "collectReward", whirlpool |-> w, position |-> p,
     rewardMint |-> mint, rewardAmount |-> amount] @@ Gathered(sig)

ClosePositionInstruction(sig, p, rent) ==
    [type |-> "closePosition", position |-> p,
     reclaimedRent |-> rent] @@ Gathered(sig)

\* Inputs of the bounded model: <<liquidity, token A amount, token B amount>>.
IncreaseInputs == {<<100, 100, 0>>, <<40, 3, 10>>}
DecreaseInputs == {<<40, 40, 0>>, <<100, 110, 50>>, <<0, 0, 0>>}

\* The events the decoder can attribute to position p of pool "pool".
DecodableEvents(p) ==
    UNION {
        {OpenPositionInstruction(s, "pool", p, PAYABLE_RENT_LAMPORTS_WITHOUT_METADATA)}
        \cup {IncreaseLiquidityInstruction(s, "pool", p, x[1], x[2], x[3]) :
                 x \in IncreaseInputs}
        \cup {DecreaseLiquidityInstruction(s, "pool", p, x[1], x[2], x[3]) :
                 x \in DecreaseInputs}
        \cup {CollectFeesInstruction(s, "pool", p, 10, 100),
              CollectRewardInstruction(s, "pool", p, "R", 7),
              CollectRewardInstruction(s, "pool", p, "C", 7),
              ClosePositionInstruction(s, p, RECLAIMABLE_RENT_LAMPORTS)}
        : s \in Signatures }

----------------------------------------------------------------------------
(* analyzeInstructions.  A result is [ok |-> TRUE, ...] or, when an        *)
(* invariant throws, [ok |-> FALSE, error |-> message].                    *)

Throw(msg) == [ok |-> FALSE, error |-> msg]

\* Array.prototype.sort((a, b) => a.blockTime - b.blockTime): stable.
\* Variant: an unstable sort, equal block times change places.
RECURSIVE InsertBeforeEqual(_, _)
InsertBeforeEqual(sorted, e) ==
    IF sorted = <<>> THEN <<e>>
    ELSE LET last == sorted[Len(sorted)]
         IN IF last.blockTime - e.blockTime < 0
            THEN Append(sorted, e)
            ELSE Append(InsertBeforeEqual(SubSeq(sorted, 1, Len(sorted) - 1), e), last)

RECURSIVE Insert(_, _)
Insert(sorted, e) ==
    IF sorted = <<>> THEN <<e>>
    ELSE LET last == sorted[Len(sorted)]
         IN IF last.blockTime - e.blockTime <= 0
            THEN Append(sorted, e)
            ELSE Append(Insert(SubSeq(sorted, 1, Len(sorted) - 1), e), last)

\* Variant: no sort, the events stay in discovery order.
KeepDiscoveryOrder(list) == list

RECURSIVE SortByBlockTime(_)
SortByBlockTime(list) ==
    IF list = <<>> THEN <<>>
    ELSE Insert(SortByBlockTime(SubSeq(list, 1, Len(list) - 1)), list[Len(list)])

\* The accumulators as declared before the loop.
InitialLedger ==
    [rollingTokenAAmount |-> Zero,
     rollingTokenBAmount |-> Zero,
     totalLiquidity |-> 0,
     transactionCosts |-> <<>>,
     depositedValue |-> Zero,
     withdrawnValue |-> Zero,
     forgoneValue |-> Zero,
     positionSize |-> Zero,
     collectedFeesValue |-> Zero,
     collectedRewardsValue |-> Zero,
     paidRent |-> Zero]

\* Variant: the fee of every instruction is added to its transaction's entry.
MapSetAccumulating(map, key, value) ==
    [x \in DOMAIN map \cup {key} |->
        IF x = key THEN (IF key \in DOMAIN map THEN Plus(map[key], value) ELSE value)
        ELSE map[x]]

\* Map.prototype.set on the per-signature cost map.
MapSet(map, key, value) ==
    [x \in DOMAIN map \cup {key} |-> IF x = key THEN value ELSE map[x]]

\* case "openPosition"
OpenPositionCase(l, ins, solToken, solPrice) ==
    LET rentFee == Mul(convertToUiAmount(ins.rentFee, solToken.decimals), solPrice)
    IN [l EXCEPT !.paidRent = Plus(@, rentFee)]

\* Variant: the position size follows the deposits alone.
IncreaseLiquidityCaseGrossSize(l, ins, tokenA, tokenB, tokenAPrice, tokenBPrice) ==
    LET tokenAAmount == convertToUiAmount(ins.tokenAIn, tokenA.decimals)
        tokenAInValue == Mul(tokenAAmount, tokenAPrice)
        tokenBAmount == convertToUiAmount(ins.tokenBIn, tokenB.decimals)
        tokenBInValue == Mul(tokenBAmount, tokenBPrice)
        deposited == Plus(Plus(l.depositedValue, tokenAInValue), tokenBInValue)
    IN [l EXCEPT
           !.rollingTokenAAmount = Plus(@, tokenAAmount),
           !.rollingTokenBAmount = Plus(@, tokenBAmount),
           !.depositedValue = deposited,
           !.totalLiquidity = @ + ins.liquidityIn,
           !.positionSize = Max(@, deposited)]

\* case "increaseLiquidity"
IncreaseLiquidityCase(l, ins, tokenA, tokenB, tokenAPrice, tokenBPrice) ==
    LET tokenAAmount == convertToUiAmount(ins.tokenAIn, tokenA.decimals)
        tokenAInValue == Mul(tokenAAmount, tokenAPrice)
        tokenBAmount == convertToUiAmount(ins.tokenBIn, tokenB.decimals)
        tokenBInValue == Mul(tokenBAmount, tokenBPrice)
        deposited == Plus(Plus(l.depositedValue, tokenAInValue), tokenBInValue)
    IN [l EXCEPT
           !.rollingTokenAAmount = Plus(@, tokenAAmount),
           !.rollingTokenBAmount = Plus(@, tokenBAmount),
           !.depositedValue = deposited,
           !.totalLiquidity = @ + ins.liquidityIn,
           !.positionSize = Max(@, Minus(deposited, l.withdrawnValue))]

\* Variant: the fraction is taken of the liquidity left after the decrease.
withdrawnPercentageOfRemainder(liquidityOut, totalLiquidity) ==
    Div(Dec(liquidityOut), Dec(totalLiquidity - liquidityOut))

\* new Decimal(liquidityOut.toString()).div(new Decimal(totalLiquidity.toString()))
withdrawnPercentage(liquidityOut, totalLiquidity) ==
    Div(Dec(liquidityOut), Dec(totalLiquidity))

\* Variant: the token B balance is not reduced by the withdrawn part.
DecreaseLiquidityCaseKeepsTokenB(l, ins, tokenA, tokenB, tokenAPrice, tokenBPrice) ==
    LET tokenAOutValue ==
            Mul(convertToUiAmount(ins.tokenAOut, tokenA.decimals), tokenAPrice)
        tokenBOutValue ==
            Mul(convertToUiAmount(ins.tokenBOut, tokenB.decimals), tokenBPrice)
        percentage == Div(Dec(ins.liquidityOut), Dec(l.totalLiquidity))
        partialTokenAAmount == Mul(l.rollingTokenAAmount, percentage)
        partialTokenBAmount == Mul(l.rollingTokenBAmount, percentage)
        partialForgoneValue ==
            Plus(Plus(Zero, Mul(partialTokenAAmount, tokenAPrice)),
                 Mul(partialTokenBAmount, tokenBPrice))
    IN [l EXCEPT
           !.withdrawnValue = Plus(Plus(@, tokenAOutValue), tokenBOutValue),
           !.rollingTokenAAmount = Minus(@, partialTokenAAmount),
           !.forgoneValue = Plus(@, partialForgoneValue),
           !.totalLiquidity = @ - ins.liquidityOut]

\* case "decreaseLiquidity"
DecreaseLiquidityCase(l, ins, tokenA, tokenB, tokenAPrice, tokenBPrice) ==
    LET tokenAOutValue ==
            Mul(convertToUiAmount(ins.tokenAOut, tokenA.decimals), tokenAPrice)
        tokenBOutValue ==
            Mul(convertToUiAmount(ins.tokenBOut, tokenB.decimals), tokenBPrice)
        percentage == withdrawnPercentage(ins.liquidityOut, l.totalLiquidity)
        partialTokenAAmount == Mul(l.rollingTokenAAmount, percentage)
        partialTokenBAmount == Mul(l.rollingTokenBAmount, percentage)
        partialForgoneValue ==
            Plus(Plus(Zero, Mul(partialTokenAAmount, tokenAPrice)),
                 Mul(partialTokenBAmount, tokenBPrice))
    IN [l EXCEPT
           !.withdrawnValue = Plus(Plus(@, tokenAOutValue), tokenBOutValue),
           !.rollingTokenBAmount = Minus(@, partialTokenBAmount),
           !.rollingTokenAAmount = Minus(@, partialTokenAAmount),
           !.forgoneValue = Plus(@, partialForgoneValue),
           !.totalLiquidity = @ - ins.liquidityOut]

\* case "collectFees"
CollectFeesCase(l, ins, tokenA, tokenB, tokenAPrice, tokenBPrice) ==
    LET tokenAFeeValue ==
            Mul(convertToUiAmount(ins.tokenAFee, tokenA.decimals), tokenAPrice)
        tokenBFeeValue ==
            Mul(convertToUiAmount(ins.tokenBFee, tokenB.decimals), tokenBPrice)
    IN [l EXCEPT
           !.collectedFeesValue = Plus(Plus(@, tokenAFeeValue), tokenBFeeValue)]

\* case "collectReward": the only case with invariants of its own.
CollectRewardCase(l, ins) ==
    IF ins.rewardMint \notin DOMAIN tokenMap THEN Throw("Reward token not found")
    ELSE LET rewardToken == tokenMap[ins.rewardMint]
         IN IF ~HasPrice(priceKey(rewardToken.mint, ins.blockTime))
            THEN Throw("Reward token price not found")
            ELSE LET rewardTokenPrice ==
                         priceMap[priceKey(rewardToken.mint, ins.blockTime)]
                     rewardValue ==
                         Mul(convertToUiAmount(ins.rewardAmount, rewardToken.decimals),
                             rewardTokenPrice)
                 IN [ok |-> TRUE,
                     ledger |-> [l EXCEPT
                         !.collectedRewardsValue = Plus(@, rewardValue)]]

\* Variant: the reclaimed rent is added to the paid rent.
ClosePositionCaseAddsRent(l, ins, solToken, solPrice) ==
    LET reclaimedRent ==
            Mul(convertToUiAmount(ins.reclaimedRent, solToken.decimals), solPrice)
    IN [l EXCEPT !.paidRent = Plus(@, reclaimedRent)]

\* case "closePosition"
ClosePositionCase(l, ins, solToken, solPrice) ==
    LET reclaimedRent ==
            Mul(convertToUiAmount(ins.reclaimedRent, solToken.decimals), solPrice)
    IN [l EXCEPT !.paidRent = Minus(@, reclaimedRent)]

\* The switch on instruction.type, prices already resolved.
ApplyInstruction(l, ins, solToken, tokenA, tokenB, solPrice, tokenAPrice, tokenBPrice) ==
    CASE ins.type = "openPosition" ->
           [ok |-> TRUE, ledger |-> OpenPositionCase(l, ins, solToken, solPrice)]
      [] ins.type = "increaseLiquidity" ->
           [ok |-> TRUE,
            ledger |-> IncreaseLiquidityCase(l, ins, tokenA, tokenB,
                                             tokenAPrice, tokenBPrice)]
      [] ins.type = "decreaseLiquidity" ->
           [ok |-> TRUE,
            ledger |-> DecreaseLiquidityCase(l, ins, tokenA, tokenB,
                                             tokenAPrice, tokenBPrice)]
      [] ins.type = "collectFees" ->
           [ok |-> TRUE,
            ledger |-> CollectFeesCase(l, ins, tokenA, tokenB, tokenAPrice, tokenBPrice)]
      [] ins.type = "collectReward" -> CollectRewardCase(l, ins)
      [] ins.type = "closePosition" ->
           [ok |-> TRUE, ledger |-> ClosePositionCase(l, ins, solToken, solPrice)]

\* One iteration of the for-of loop: price lookups, the transaction fee,
\* then the switch.
ProcessInstruction(l, ins, whirlpoolData) ==
    LET solToken == tokenMap[NATIVE_MINT]
        tokenA == tokenMap[whirlpoolData.tokenMintA]
        tokenB == tokenMap[whirlpoolData.tokenMintB]
    IN IF ~HasPrice(priceKey(NATIVE_MINT, ins.blockTime)) THEN Throw("SOL price not found")
       ELSE IF ~HasPrice(priceKey(tokenA.mint, ins.blockTime))
       THEN Throw("Token A price not found")
       ELSE IF ~HasPrice(priceKey(tokenB.mint, ins.blockTime))
       THEN Throw("Token B price not found")
       ELSE LET solPrice == priceMap[priceKey(NATIVE_MINT, ins.blockTime)]
                tokenAPrice == priceMap[priceKey(tokenA.mint, ins.blockTime)]
                tokenBPrice == priceMap[priceKey(tokenB.mint, ins.blockTime)]
                transactionFee ==
                    Mul(convertToUiAmount(ins.transactionFee, solToken.decimals), solPrice)
                withFee == [l EXCEPT !.transactionCosts =
                                MapSet(@, ins.signature, transactionFee)]
            IN ApplyInstruction(withFee, ins, solToken, tokenA, tokenB,
                                solPrice, tokenAPrice, tokenBPrice)

\* Array.from(map.values()).reduce((acc, fee) => acc.plus(fee), 0)
RECURSIVE SumValues(_)
SumValues(map) ==
    IF DOMAIN map = {} THEN Zero
    ELSE LET key == CHOOSE x \in DOMAIN map : TRUE
         IN Plus(SumValues([x \in DOMAIN map \ {key} |-> map[x]]), map[key])

\* After the loop: the remaining balances at the current prices, the
\* transaction cost, and the returned record.
FinishInstructions(l, whirlpoolData) ==
    LET tokenA == tokenMap[whirlpoolData.tokenMintA]
        tokenB == tokenMap[whirlpoolData.tokenMintB]
    IN IF ~HasPrice(currentKey(tokenA.mint)) THEN Throw("Current token A price not found")
       ELSE IF ~HasPrice(currentKey(tokenB.mint))
       THEN Throw("Current token B price not found")
       ELSE LET currentTokenAPrice == priceMap[currentKey(tokenA.mint)]
                currentTokenBPrice == priceMap[currentKey(tokenB.mint)]
                remainingForgoneValue ==
                    Plus(Plus(Zero, Mul(l.rollingTokenAAmount, currentTokenAPrice)),
                         Mul(l.rollingTokenBAmount, currentTokenBPrice))
            IN [ok |-> TRUE,
                totals |->
                   [depositedValue |-> l.depositedValue,
                    withdrawnValue |-> l.withdrawnValue,
                    forgoneValue |-> Plus(l.forgoneValue, remainingForgoneValue),
                    positionSize |-> l.positionSize,
                    collectedFeesValue |-> l.collectedFeesValue,
                    collectedRewardsValue |-> l.collectedRewardsValue,
                    paidRent |-> l.paidRent,
                    transactionCost |-> SumValues(l.transactionCosts)]]

RECURSIVE RunLoop(_, _, _, _)
RunLoop(l, sorted, n, whirlpoolData) ==
    IF n > Len(sorted) THEN [ok |-> TRUE, ledger |-> l]
    ELSE LET r == ProcessInstruction(l, sorted[n], whirlpoolData)
         IN IF r.ok THEN RunLoop(r.ledger, sorted, n + 1, whirlpoolData) ELSE r

\* The element of a one-element set: Only({F(x) : x \in {e}}) is F(e) with
\* e evaluated once, as a const binding.
Only(S) == CHOOSE x \in S : TRUE

analyzeInstructions(list, whirlpoolData) ==
    Only({IF r.ok THEN FinishInstructions(r.ledger, whirlpoolData) ELSE r :
             r \in {RunLoop(InitialLedger, SortByBlockTime(list), 1, whirlpoolData)}})

----------------------------------------------------------------------------
(* analyzePosition and the live quote.                                     *)

\* Array.prototype.filter on the instruction type.
OfType(list, type) == SelectSeq(list, LAMBDA ins : ins.type = type)

\* An optional value: <<>> for undefined, <<v>> for v.
Undefined == <<>>

NoBalances ==
    [currentValue |-> Zero,
     collectibleFeesValue |-> Zero,
     collectibleRewardsValue |-> Zero,
     reclaimableRent |-> Zero]

RECURSIVE SumRewards(_, _, _)
SumRewards(rewardInfos, rewardOwed, n) ==
    IF n > Len(rewardInfos) THEN Zero
    ELSE LET mint == rewardInfos[n]
             value ==
                 IF /\ n <= Len(rewardOwed)
                    /\ mint \in DOMAIN tokenMap
                    /\ HasPrice(currentKey(mint))
                 THEN Mul(convertToUiAmount(rewardOwed[n], tokenMap[mint].decimals),
                          priceMap[currentKey(mint)])
                 ELSE Zero
         IN Plus(value, SumRewards(rewardInfos, rewardOwed, n + 1))

\* account is positionMap.get(address): Undefined when the position is closed.
getOutstandingBalances(account, whirlpoolData) ==
    IF account = Undefined THEN [ok |-> TRUE, balances |-> NoBalances]
    ELSE LET positionData == account[1]
             solToken == tokenMap[NATIVE_MINT]
             tokenA == tokenMap[whirlpoolData.tokenMintA]
             tokenB == tokenMap[whirlpoolData.tokenMintB]
         IN IF ~HasPrice(currentKey(NATIVE_MINT)) THEN Throw("Current SOL price not found")
            ELSE IF ~HasPrice(currentKey(tokenA.mint))
            THEN Throw("Current Token A price not found")
            ELSE IF ~HasPrice(currentKey(tokenB.mint))
            THEN Throw("Current Token B price not found")
            ELSE LET solPrice == priceMap[currentKey(NATIVE_MINT)]
                     tokenAPrice == priceMap[currentKey(tokenA.mint)]
                     tokenBPrice == priceMap[currentKey(tokenB.mint)]
                     tokenAAmount == convertToUiAmount(positionData.tokenEstA, tokenA.decimals)
                     tokenBAmount == convertToUiAmount(positionData.tokenEstB, tokenB.decimals)
                     tokenAFeeAmount == convertToUiAmount(positionData.feeOwedA, tokenA.decimals)
                     tokenBFeeAmount == convertToUiAmount(positionData.feeOwedB, tokenB.decimals)
                 IN [ok |-> TRUE,
                     balances |->
                        [currentValue |->
                             Plus(Plus(Zero, Mul(tokenAAmount, tokenAPrice)),
                                  Mul(tokenBAmount, tokenBPrice)),
                         collectibleFeesValue |->
                             Plus(Plus(Zero, Mul(tokenAFeeAmount, tokenAPrice)),
                                  Mul(tokenBFeeAmount, tokenBPrice)),
                         collectibleRewardsValue |->
                             SumRewards(whirlpoolData.rewardInfos,
                                        positionData.rewardOwed, 1),
                         reclaimableRent |->
                             Mul(convertToUiAmount(
                                     RECLAIMABLE_RENT_LAMPORTS - CLOSE_TRANSACTION_LAMPORTS,
                                     solToken.decimals),
                                 solPrice)]]

\* Lines 229-244: the checks made before the ledger runs.
\* Variant: any number of opens and closes is accepted, the first of each
\* is used.
CheckInstructionsFirstOfEach(list) ==
    LET openInstructions == OfType(list, "openPosition")
        closePositions == OfType(list, "closePosition")
    IN IF Len(openInstructions) = 0 THEN Throw("No open instruction found.")
       ELSE IF openInstructions[1].whirlpool \notin DOMAIN poolMap
       THEN Throw("Pool not found")
       ELSE [ok |-> TRUE,
             openInstruction |-> openInstructions[1],
             closeInstruction |->
                 IF Len(closePositions) >= 1 THEN <<closePositions[1]>> ELSE Undefined]

CheckInstructions(list) ==
    LET openInstructions == OfType(list, "openPosition")
        closePositions == OfType(list, "closePosition")
    IN IF Len(openInstructions) # 1 THEN Throw("No open instruction found.")
       ELSE IF Len(closePositions) > 1
       THEN Throw("More than one close instruction found.")
       ELSE IF openInstructions[1].whirlpool \notin DOMAIN poolMap
       THEN Throw("Pool not found")
       ELSE [ok |-> TRUE,
             openInstruction |-> openInstructions[1],
             closeInstruction |->
                 IF Len(closePositions) = 1 THEN <<closePositions[1]>> ELSE Undefined]

\* Variant: the guard only rejects negative deposits.
MeetsThresholdAnyDeposit(depositedValue) == Gte(depositedValue, Zero)

\* invariant(depositedValue.gte(1), ...)
MeetsThreshold(depositedValue) == Gte(depositedValue, Dec(1))

Gains(t, q) ==
    Plus(Plus(Plus(Plus(Plus(Plus(t.withdrawnValue, q.currentValue),
        t.collectedFeesValue), t.collectedRewardsValue),
        q.collectibleFeesValue), q.collectibleRewardsValue),
        q.reclaimableRent)

\* Variant: the rent is left out of the losses.
LossesWithoutRent(t) == Plus(t.depositedValue, t.transactionCost)

Losses(t) == Plus(Plus(t.depositedValue, t.transactionCost), t.paidRent)

\* Lines 250-302: the threshold, the live quote and the derived fields.
BuildSummary(openInstruction, closeInstruction, account, t) ==
    IF ~MeetsThreshold(t.depositedValue)
    THEN Throw("Deposited value to small to accurately analyze")
    ELSE LET b == getOutstandingBalances(account, poolMap[openInstruction.whirlpool])
         IN IF ~b.ok THEN b
            ELSE LET q == b.balances
                     profit == Minus(Gains(t, q), Losses(t))
                     profitRatio == Div(profit, t.positionSize)
                     forgoneProfit == Minus(t.forgoneValue, t.depositedValue)
                     forgoneProfitRatio == Div(forgoneProfit, t.positionSize)
                     opportunityCost == Minus(forgoneProfit, profit)
                     opportunityCostRatio == Div(Neg(opportunityCost), t.positionSize)
                 IN [ok |-> TRUE,
                     summary |->
                        [whirlpool |-> openInstruction.whirlpool,
                         position |-> openInstruction.position,
                         openedAt |-> openInstruction.blockTime,
                         closedAt |->
                             IF closeInstruction = Undefined THEN Undefined
                             ELSE <<closeInstruction[1].blockTime>>,
                         profit |-> profit,
                         profitRatio |-> profitRatio,
                         forgoneProfit |-> forgoneProfit,
                         forgoneProfitRatio |-> forgoneProfitRatio,
                         opportunityCost |-> opportunityCost,
                         opportunityCostRatio |-> opportunityCostRatio] @@ t @@ q]

\* Map.prototype.get
MapGet(map, key) == IF key \in DOMAIN map THEN <<map[key]>> ELSE Undefined

analyzePosition(list, accounts) ==
    LET c == CheckInstructions(list)
    IN IF ~c.ok THEN c
       ELSE Only({IF ~a.ok THEN a
                  ELSE BuildSummary(c.openInstruction, c.closeInstruction,
                                    MapGet(accounts, c.openInstruction.position),
                                    a.totals) :
                     a \in {analyzeInstructions(list,
                                                poolMap[c.openInstruction.whirlpool])}})

----------------------------------------------------------------------------
(* One position: the decoder appends events in discovery order, then       *)
(* analyzePosition runs over the list, one loop iteration per step.        *)

Init ==
    /\ position = "p1"
    /\ positionMap \in PositionMaps({"p1"})
    /\ instructions = <<>>
    /\ decoded = <<>>
    /\ pc = "decode"
    /\ i = 0
    /\ ledger = InitialLedger
    /\ totals = Undefined
    /\ summary = Undefined
    /\ error = ""
    /\ positions = <<>>
    /\ k = 0
    /\ summaries = <<>>
    /\ OtherIdle

\* decodeTransactions walks the transactions one after the other, so the
\* events of one transaction are neighbours in the list.
FollowsTransactionOrder(list, e) ==
    IF list = <<>> THEN TRUE
    ELSE \/ list[Len(list)].signature = e.signature
         \/ \A n \in 1..Len(list) : list[n].signature # e.signature

\* decodeTransactions pushes one more decoded instruction of the position.
Decode ==
    /\ pc = "decode"
    /\ Len(instructions) < MaxEvents
    /\ \E e \in DecodableEvents(position) :
          /\ FollowsTransactionOrder(instructions, e)
          /\ instructions' = Append(instructions, e)
          /\ decoded' = Append(decoded, e)
    /\ UNCHANGED otherVars
    /\ UNCHANGED <<position, positionMap, pc, i, ledger, totals, summary, error,
                   positions, k, summaries>>

\* analyzePosition up to the first loop iteration of analyzeInstructions.
EnterAnalyzePosition ==
    /\ pc = "decode"
    /\ LET c == CheckInstructions(instructions)
       IN IF c.ok
          THEN /\ instructions' = SortByBlockTime(instructions)
               /\ ledger' = InitialLedger
               /\ i' = 1
               /\ pc' = "loop"
               /\ error' = error
          ELSE /\ pc' = "failed"
               /\ error' = c.error
               /\ UNCHANGED <<instructions, ledger, i>>
    /\ UNCHANGED otherVars
    /\ UNCHANGED <<position, positionMap, decoded, totals, summary, positions, k, summaries>>

\* The whirlpool data analyzePosition passes to analyzeInstructions.
CurrentPool == poolMap[OfType(instructions, "openPosition")[1].whirlpool]

LoopStep ==
    /\ pc = "loop"
    /\ i <= Len(instructions)
    /\ LET r == ProcessInstruction(ledger, instructions[i], CurrentPool)
       IN IF r.ok
          THEN /\ ledger' = r.ledger
               /\ i' = i + 1
               /\ UNCHANGED <<pc, error>>
          ELSE /\ pc' = "failed"
               /\ error' = r.error
               /\ UNCHANGED <<ledger, i>>
    /\ UNCHANGED otherVars
    /\ UNCHANGED <<position, positionMap, instructions, decoded, totals, summary,
                   positions, k, summaries>>

ReturnTotals ==
    /\ pc = "loop"
    /\ i > Len(instructions)
    /\ LET r == FinishInstructions(ledger, CurrentPool)
       IN IF r.ok
          THEN /\ totals' = <<r.totals>>
               /\ pc' = "returned"
               /\ error' = error
          ELSE /\ pc' = "failed"
               /\ error' = r.error
               /\ totals' = totals
    /\ UNCHANGED otherVars
    /\ UNCHANGED <<position, positionMap, instructions, decoded, i, ledger, summary,
                   positions, k, summaries>>

Summarize ==
    /\ pc = "returned"
    /\ LET c == CheckInstructions(instructions)
           r == BuildSummary(c.openInstruction, c.closeInstruction,
                             MapGet(positionMap, c.openInstruction.position), totals[1])
       IN IF r.ok
          THEN /\ summary' = <<r.summary>>
               /\ pc' = "done"
               /\ error' = error
          ELSE /\ pc' = "failed"
               /\ error' = r.error
               /\ summary' = summary
    /\ UNCHANGED otherVars
    /\ UNCHANGED <<position, positionMap, instructions, decoded, i, ledger, totals,
                   positions, k, summaries>>

Next == Decode \/ EnterAnalyzePosition \/ LoopStep \/ ReturnTotals \/ Summarize

Spec == Init /\ [][Next]_vars

----------------------------------------------------------------------------
(* analyzePositions over a batch of per-position event lists.              *)

\* Event lists as decodeTransactions groups them, one per position.
ClosedPosition ==
    <<ClosePositionInstruction("s2", "p2", RECLAIMABLE_RENT_LAMPORTS),
      DecreaseLiquidityInstruction("s2", "pool", "p2", 100, 110, 50),
      IncreaseLiquidityInstruction("s1", "pool", "p2", 100, 100, 0),
      OpenPositionInstruction("s1", "pool", "p2", PAYABLE_RENT_LAMPORTS_WITHOUT_METADATA)>>

OpenPosition ==
    <<OpenPositionInstruction("s1", "pool", "p1", PAYABLE_RENT_LAMPORTS_WITHOUT_METADATA),
      IncreaseLiquidityInstruction("s1", "pool", "p1", 100, 100, 0),
      CollectFeesInstruction("s2", "pool", "p1", 10, 100)>>

SmallPosition ==
    <<OpenPositionInstruction("s1", "pool", "p3", PAYABLE_RENT_LAMPORTS_WITHOUT_METADATA),
      IncreaseLiquidityInstruction("s1", "pool", "p3", 40, 5, 0)>>

UnpricedPosition ==
    <<OpenPositionInstruction("s1", "pool2", "p4", PAYABLE_RENT_LAMPORTS_WITHOUT_METADATA),
      IncreaseLiquidityInstruction("s2", "pool2", "p4", 100, 100, 0)>>

UnknownPoolPosition ==
    <<OpenPositionInstruction("s1", "pool3", "p5", PAYABLE_RENT_LAMPORTS_WITHOUT_METADATA),
      IncreaseLiquidityInstruction("s2", "pool3", "p5", 100, 100, 0)>>

UnopenedPosition ==
    <<IncreaseLiquidityInstruction("s2", "pool", "p6", 100, 100, 0),
      ClosePositionInstruction("s2", "p6", RECLAIMABLE_RENT_LAMPORTS)>>

BatchLists ==
    {ClosedPosition, OpenPosition, SmallPosition, UnpricedPosition,
     UnknownPoolPosition, UnopenedPosition}

\* Batches: up to MaxBatch lists of distinct positions, in any order.
Batches ==
    UNION {{b \in [1..n -> BatchLists] :
               \A x, y \in 1..n : x # y => b[x] # b[y]} : n \in 0..MaxBatch}

\* analyzePositions about to run over the batch.
BatchStart(batch) ==
    /\ positions = batch
    /\ decoded = positions
    /\ k = 0
    /\ summaries = <<>>
    /\ pc = "batch"
    /\ position = "p1"
    /\ positionMap \in PositionMaps({"p1"}) /\ "p1" \in DOMAIN positionMap
    /\ instructions = <<>>
    /\ i = 0
    /\ ledger = InitialLedger
    /\ totals = Undefined
    /\ summary = Undefined
    /\ error = ""

InitBatch ==
    /\ \E batch \in Batches : BatchStart(batch)
    /\ OtherIdle

\* The list as analyzePosition leaves it: sorted in place once the checks
\* before analyzeInstructions have passed.
AfterAnalyzePosition(list) ==
    IF CheckInstructions(list).ok THEN SortByBlockTime(list) ELSE list

\* Variant: no try/catch around analyzePosition, a throw leaves the batch.
AnalyzeNextPositionUncaught ==
    /\ pc = "batch"
    /\ k < Len(positions)
    /\ \E r \in {analyzePosition(positions[k + 1], positionMap)} :
          /\ summaries' = IF r.ok THEN Append(summaries, r.summary) ELSE summaries
          /\ error' = IF r.ok THEN error ELSE r.error
          /\ pc' = IF r.ok THEN pc ELSE "failed"
    /\ positions' = [positions EXCEPT ![k + 1] = AfterAnalyzePosition(@)]
    /\ k' = k + 1
    /\ UNCHANGED otherVars
    /\ UNCHANGED <<position, positionMap, instructions, decoded, i, ledger, totals, summary>>

\* The flatMap callback for the next list: [summary] or, on a throw, [].
AnalyzeNextPosition ==
    /\ pc = "batch"
    /\ k < Len(positions)
    /\ \E r \in {analyzePosition(positions[k + 1], positionMap)} :
          /\ summaries' = IF r.ok THEN Append(summaries, r.summary) ELSE summaries
          /\ error' = IF r.ok THEN error ELSE r.error
    /\ positions' = [positions EXCEPT ![k + 1] = AfterAnalyzePosition(@)]
    /\ k' = k + 1
    /\ UNCHANGED otherVars
    /\ UNCHANGED <<position, positionMap, instructions, decoded, pc, i, ledger, totals, summary>>

ReturnSummaries ==
    /\ pc = "batch"
    /\ k = Len(positions)
    /\ pc' = "batchDone"
    /\ UNCHANGED otherVars
    /\ UNCHANGED <<position, positionMap, instructions, decoded, i, ledger, totals, summary,
                   error, positions, k, summaries>>

NextBatch == AnalyzeNextPosition \/ ReturnSummaries

SpecBatch == InitBatch /\ [][NextBatch]_vars

----------------------------------------------------------------------------
(* The tail of analyze() in index.ts: the include-open filter, the log and *)
(* the csv file of writePositionSummaries.                                 *)

\* blockTime: transaction.blockTime ?? 0, for a transaction whose block
\* time the node reports as null.
Untimed(ins) == [ins EXCEPT !.blockTime = 0]

\* Opened, funded and emptied in s1, closed in a transaction without
\* block time.
UntimedClosePosition ==
    <<Untimed(ClosePositionInstruction("s2", "p7", RECLAIMABLE_RENT_LAMPORTS)),
      OpenPositionInstruction("s1", "pool", "p7", PAYABLE_RENT_LAMPORTS_WITHOUT_METADATA),
      IncreaseLiquidityInstruction("s1", "pool", "p7", 100, 100, 0),
      DecreaseLiquidityInstruction("s1", "pool", "p7", 100, 110, 50)>>

OutputLists == {ClosedPosition, OpenPosition, SmallPosition, UntimedClosePosition}

OutputBatches ==
    UNION {{b \in [1..n -> OutputLists] :
               \A x, y \in 1..n : x # y => b[x] # b[y]} : n \in 0..MaxBatch}

\* The fields of a summary that hold a Decimal.
DecimalFields(s) == DOMAIN s \ {"whirlpool", "position", "openedAt", "closedAt"}

\* Decimal.prototype.toFixed(2): two decimal places, halves away from zero.
toFixed2(x) ==
    IF IsNaN(x) THEN "NaN"
    ELSE IF ~IsFinite(x) THEN (IF x[1] > 0 THEN "Infinity" ELSE "-Infinity")
    ELSE LET cents == (200 * Abs(x[1]) + Abs(x[2])) \div (2 * Abs(x[2]))
             whole == cents \div 100
             frac == cents % 100
         IN (IF Sign(x[1]) * Sign(x[2]) < 0 THEN "-" ELSE "")
            \o ToString(whole) \o "."
            \o (IF frac < 10 THEN "0" ELSE "") \o ToString(frac)

\* value.toString() of a field that is not a Decimal; undefined has no
\* toString.
FieldToString(field, value) ==
    CASE field \in {"whirlpool", "position"} -> [ok |-> TRUE, text |-> value]
      [] field = "openedAt" -> [ok |-> TRUE, text |-> ToString(value)]
      [] field = "closedAt" ->
            IF value = Undefined
            THEN Throw("Cannot read properties of undefined (reading 'toString')")
            ELSE [ok |-> TRUE, text |-> ToString(value[1])]

\* The reduce of writePositionSummary over Object.entries(summary).
RowOf(s) ==
    IF \E field \in DOMAIN s \ DecimalFields(s) : ~FieldToString(field, s[field]).ok
    THEN Throw("TypeError")
    ELSE [ok |-> TRUE,
          row |-> [field \in DOMAIN s |->
                      IF field \in DecimalFields(s) THEN toFixed2(s[field])
                      ELSE FieldToString(field, s[field]).text]]

\* (summary) => summary.closedAt
ClosedAtTruthy(s) == s.closedAt # Undefined /\ s.closedAt[1] # 0

\* summaries.filter((summary) => summary.closedAt)
FilterClosed(list) == SelectSeq(list, ClosedAtTruthy)

InitOutput ==
    /\ \E batch \in OutputBatches : BatchStart(batch)
    /\ includeOpen \in BOOLEAN
    /\ csvPath \in BOOLEAN
    /\ output = <<>>
    /\ rows = <<>>
    /\ outPc = "analyze"
    /\ RunIdle
    /\ GatherIdle
    /\ PricesIdle
    /\ OwnersIdle
    /\ DecodeIdle
    /\ ExtractIdle

\* Lines 50-58: analyzePositions has returned; the filter, then the logs.
FilterAndLog ==
    /\ pc = "batchDone"
    /\ outPc = "analyze"
    /\ output' = IF ~includeOpen THEN FilterClosed(summaries) ELSE summaries
    /\ outPc' = IF csvPath THEN "writing" ELSE "done"
    /\ UNCHANGED <<includeOpen, csvPath, rows>>
    /\ UNCHANGED <<ledgerVars, runVars, gatherVars, priceVars, ownerVars, decodeVars, extractVars>>

\* writePositionSummaries: every executor runs; the ones that build their
\* row write it, and Promise.all rejects if one of them threw.
WritePositionSummaries ==
    /\ outPc = "writing"
    /\ \E built \in {[x \in 1..Len(output) |-> RowOf(output[x])]} :
          /\ rows' = [x \in 1..Len(SelectSeq(built, LAMBDA r : r.ok)) |->
                         SelectSeq(built, LAMBDA r : r.ok)[x].row]
          /\ outPc' = IF \A x \in 1..Len(built) : built[x].ok THEN "done" ELSE "rejected"
    /\ UNCHANGED <<includeOpen, csvPath, output>>
    /\ UNCHANGED <<ledgerVars, runVars, gatherVars, priceVars, ownerVars, decodeVars, extractVars>>

NextOutput == NextBatch \/ FilterAndLog \/ WritePositionSummaries

SpecOutput == InitOutput /\ [][NextOutput]_vars

----------------------------------------------------------------------------
(* run() of index.ts: the command as a chain of awaited steps, and what    *)
(* the process does once the promise of run() has settled.                 *)

\* The ledger variables while another part of the program is explored.
LedgerIdle ==
    /\ position = "p1"
    /\ positionMap = <<>>
    /\ instructions = <<>>
    /\ decoded = <<>>
    /\ pc = "idle"
    /\ i = 0
    /\ ledger = InitialLedger
    /\ totals = Undefined
    /\ summary = Undefined
    /\ error = ""
    /\ positions = <<>>
    /\ k = 0
    /\ summaries = <<>>

\* The steps of analyze(), in order; the csv step only with args.csv.
AnalyzeSteps(withCsv) ==
    <<"gatherInstructions", "decodeTransactions", "fetchPositionsForInstructions",
      "fetchPoolsForInstructions", "fetchTokensForPools", "fetchPricesForInstructions",
      "analyzePositions", "filter", "logPositionSummaries">>
    \o (IF withCsv THEN <<"writePositionSummaries">> ELSE <<>>)

\* The steps of find(), in order.
FindSteps ==
    <<"gatherPositions", "fetchTokensForPositions", "fetchPricesForPositions",
      "getPositionValues", "fetchPositionOwners", "computeWalletValues",
      "logLiquidityProviderAggregates">>

\* run(): the coin list first, then the steps of the command.
RunSteps ==
    <<"fetchAndBuildCoinIdToMintMap">>
    \o (IF command = "analyze" THEN AnalyzeSteps(csv) ELSE FindSteps)

\* The awaited steps: each returns a promise that can reject, and none of
\* them is awaited inside a try/catch.
AwaitedSteps ==
    {"fetchAndBuildCoinIdToMintMap", "gatherInstructions",
     "fetchPositionsForInstructions", "fetchPoolsForInstructions",
     "fetchTokensForPools", "fetchPricesForInstructions", "writePositionSummaries",
     "gatherPositions", "fetchTokensForPositions", "fetchPricesForPositions",
     "fetchPositionOwners"}

StepIndex(name) == CHOOSE n \in 1..Len(RunSteps) : RunSteps[n] = name

InitRun ==
    /\ command \in {"analyze", "find"}
    /\ csv \in (IF command = "analyze" THEN BOOLEAN ELSE {FALSE})
    /\ stage = "start"
    /\ settled = "pending"
    /\ loading = FALSE
    /\ logged = 0
    /\ dropped = 0
    /\ exitCode = <<>>
    /\ LedgerIdle
    /\ GatherIdle
    /\ PricesIdle
    /\ OutputIdle
    /\ OwnersIdle
    /\ DecodeIdle
    /\ ExtractIdle

\* run() up to its first await: startLoading sets the interval.
StartRun ==
    /\ stage = "start"
    /\ loading' = TRUE
    /\ stage' = RunSteps[1]
    /\ UNCHANGED <<command, csv, settled, logged, dropped, exitCode>>
    /\ UNCHANGED <<ledgerVars, gatherVars, priceVars, outputVars, ownerVars, decodeVars, extractVars>>

\* The current step completes: the next one starts, or run() returns.
\* analyzePositions completes whatever number of positions it had to drop.
StepResolves ==
    /\ settled = "pending"
    /\ stage \in {RunSteps[n] : n \in 1..Len(RunSteps)}
    /\ dropped' \in (IF stage = "analyzePositions" THEN 0..MaxBatch ELSE {dropped})
    /\ IF StepIndex(stage) < Len(RunSteps)
       THEN /\ stage' = RunSteps[StepIndex(stage) + 1]
            /\ settled' = settled
       ELSE /\ stage' = "returned"
            /\ settled' = "fulfilled"
    /\ UNCHANGED <<command, csv, loading, logged, exitCode>>
    /\ UNCHANGED <<ledgerVars, gatherVars, priceVars, outputVars, ownerVars, decodeVars, extractVars>>

\* The promise of the current step rejects: run() rejects with it.
StepRejects ==
    /\ settled = "pending"
    /\ stage \in AwaitedSteps
    /\ settled' = "rejected"
    /\ UNCHANGED <<command, csv, stage, loading, logged, dropped, exitCode>>
    /\ UNCHANGED <<ledgerVars, gatherVars, priceVars, outputVars, ownerVars, decodeVars, extractVars>>

\* .catch(err): the rejection is written to stderr and the chain fulfils.
CatchErr ==
    /\ settled = "rejected"
    /\ logged' = logged + 1
    /\ settled' = "caught"
    /\ UNCHANGED <<command, csv, stage, loading, dropped, exitCode>>
    /\ UNCHANGED <<ledgerVars, gatherVars, priceVars, outputVars, ownerVars, decodeVars, extractVars>>

\* .finally(stopLoading): the interval is cleared.
FinallyStopLoading ==
    /\ settled \in {"fulfilled", "caught"}
    /\ loading
    /\ loading' = FALSE
    /\ UNCHANGED <<command, csv, stage, settled, logged, dropped, exitCode>>
    /\ UNCHANGED <<ledgerVars, gatherVars, priceVars, outputVars, ownerVars, decodeVars, extractVars>>

\* Nothing is left on the event loop: node exits with process.exitCode,
\* which nothing in the program sets, so with 0.
ProcessExit ==
    /\ settled \in {"fulfilled", "caught"}
    /\ ~loading
    /\ exitCode = <<>>
    /\ exitCode' = <<0>>
    /\ UNCHANGED <<command, csv, stage, settled, loading, logged, dropped>>
    /\ UNCHANGED <<ledgerVars, gatherVars, priceVars, outputVars, ownerVars, decodeVars, extractVars>>

NextRun ==
    StartRun \/ StepResolves \/ StepRejects \/ CatchErr \/ FinallyStopLoading
    \/ ProcessExit

SpecRun == InitRun /\ [][NextRun]_vars

----------------------------------------------------------------------------
(* gatherTransactions of gather-instructions.ts: one queue task per        *)
(* address pages through the signature history, then the transactions of   *)
(* all signatures are fetched.  A signature of an address is its rank in    *)
(* the history of that address, newest first; a page is the interval        *)
(* <<first, last>> of ranks it holds.                                       *)

TRANSACTIONS_LIMIT == 1000

Addresses == {"w1", "w2"}
AddressOrder == <<"w1", "w2">>
HistorySizes == {0, 999, 1000, 2500}

Min(a, b) == IF a <= b THEN a ELSE b

\* connection.getSignaturesForAddress(address, {before}): the signatures
\* older than `before` (0: from the newest), at most 1000 of them.
SignaturesPage(held, before) == <<before + 1, Min(before + TRANSACTIONS_LIMIT, held)>>

PageLength(page) == IF page[2] < page[1] THEN 0 ELSE page[2] - page[1] + 1

\* signatures.length
RECURSIVE SignaturesLength(_)
SignaturesLength(pages) ==
    IF pages = <<>> THEN 0
    ELSE PageLength(pages[Len(pages)]) + SignaturesLength(SubSeq(pages, 1, Len(pages) - 1))

\* signatures.push(...sigInfos)
PushAll(pages, page) == IF PageLength(page) = 0 THEN pages ELSE Append(pages, page)

\* signatures[0].signature: the continuation point that never advances.
LastSignatureOfFirstPage(pages) == IF pages = <<>> THEN 0 ELSE pages[1][2]

\* signatures[signatures.length - 1].signature, or undefined (0)
LastSignature(pages) == IF pages = <<>> THEN 0 ELSE pages[Len(pages)][2]

\* x.flat() over the results of the tasks, in the order of the addresses.
RECURSIVE Flat(_, _)
Flat(byAddress, n) ==
    IF n = 0 THEN <<>>
    ELSE Flat(byAddress, n - 1)
         \o [x \in 1..Len(byAddress[AddressOrder[n]]) |->
                <<AddressOrder[n], byAddress[AddressOrder[n]][x]>>]

InitGather ==
    /\ cycles \in 1..MaxCycles
    /\ history \in [Addresses -> HistorySizes]
    /\ task = [a \in Addresses |-> 0]
    /\ signatures = [a \in Addresses |-> <<>>]
    /\ calls = [a \in Addresses |-> <<>>]
    /\ gatherPc = "signatures"
    /\ gathered = <<>>
    /\ LedgerIdle
    /\ RunIdle
    /\ PricesIdle
    /\ OutputIdle
    /\ OwnersIdle
    /\ DecodeIdle
    /\ ExtractIdle

\* One iteration of the loop of getSignaturesForAddress for address a, the
\* page request resolving.  task[a] is the loop counter, -1 once the task
\* has returned and -2 once it has rejected.
PageResolves(a) ==
    /\ task[a] >= 0
    /\ task[a] < cycles
    /\ LET before == LastSignature(signatures[a])
           sigInfos == SignaturesPage(history[a], before)
       IN /\ calls' = [calls EXCEPT ![a] =
                          Append(@, [before |-> before, ok |-> TRUE, page |-> sigInfos])]
          /\ signatures' = [signatures EXCEPT ![a] = PushAll(@, sigInfos)]
          /\ task' = [task EXCEPT ![a] =
                         IF PageLength(sigInfos) < TRANSACTIONS_LIMIT THEN -1
                         ELSE IF @ + 1 < cycles THEN @ + 1 ELSE -1]
    /\ UNCHANGED <<cycles, history, gatherPc, gathered>>
    /\ UNCHANGED <<ledgerVars, runVars, priceVars, outputVars, ownerVars, decodeVars, extractVars>>

\* The page request of address a rejects: its task rejects, and with it the
\* promise of queue.addAll that gatherTransactions awaits.
PageRejects(a) ==
    /\ task[a] >= 0
    /\ task[a] < cycles
    /\ calls' = [calls EXCEPT ![a] =
                    Append(@, [before |-> LastSignature(signatures[a]), ok |-> FALSE,
                               page |-> <<1, 0>>])]
    /\ task' = [task EXCEPT ![a] = -2]
    /\ gatherPc' = IF gatherPc = "signatures" THEN "rejected" ELSE gatherPc
    /\ UNCHANGED <<cycles, history, signatures, gathered>>
    /\ UNCHANGED <<ledgerVars, runVars, priceVars, outputVars, ownerVars, decodeVars, extractVars>>

\* Every task has returned: the signatures are flattened and their
\* transactions requested.
AllSignatures ==
    /\ gatherPc = "signatures"
    /\ \A a \in Addresses : task[a] = -1
    /\ gatherPc' = "transactions"
    /\ UNCHANGED <<cycles, history, task, signatures, calls, gathered>>
    /\ UNCHANGED <<ledgerVars, runVars, priceVars, outputVars, ownerVars, decodeVars, extractVars>>

\* getParsedTransactions resolves for every chunk; a transaction the node
\* no longer has comes back null and is left out.
TransactionsResolve ==
    /\ gatherPc = "transactions"
    /\ LET found == Flat(signatures, Len(AddressOrder))
       IN \E nulls \in {0, 1} :
             /\ nulls = 1 => found # <<>>
             /\ gathered' = [pages |-> found,
                             count |-> SignaturesLength([x \in 1..Len(found) |-> found[x][2]])
                                       - nulls]
    /\ gatherPc' = "returned"
    /\ UNCHANGED <<cycles, history, task, signatures, calls>>
    /\ UNCHANGED <<ledgerVars, runVars, priceVars, outputVars, ownerVars, decodeVars, extractVars>>

\* getParsedTransactions rejects for a chunk.
TransactionsReject ==
    /\ gatherPc = "transactions"
    /\ Flat(signatures, Len(AddressOrder)) # <<>>
    /\ gatherPc' = "rejected"
    /\ UNCHANGED <<cycles, history, task, signatures, calls, gathered>>
    /\ UNCHANGED <<ledgerVars, runVars, priceVars, outputVars, ownerVars, decodeVars, extractVars>>

NextGather ==
    \/ \E a \in Addresses : PageResolves(a) \/ PageRejects(a)
    \/ AllSignatures
    \/ TransactionsResolve
    \/ TransactionsReject

\* Every request settles: the queue keeps running its tasks.
SpecGather == InitGather /\ [][NextGather]_vars /\ WF_vars(NextGather)

----------------------------------------------------------------------------
(* fetchPrices: one queue task per mint fetches the historical series of   *)
(* the mint from CoinGecko, then the price of every key is looked up at    *)
(* its block time rounded to the hour.  Times are in seconds; a key with   *)
(* time 0 is the mint-only key of the current price.                       *)

HALF_HOUR == 1800
HOUR == 3600
HALF_DAY == 43200
DAY == 86400

\* Math.floor(Date.now() / 1000), taken as the same second throughout.
Now == 100 * DAY + 777

\* Math.round(time / interval) * interval
roundToNearest(time, interval) == ((2 * time + interval) \div (2 * interval)) * interval

\* splitPriceKey(key)[1]
KeyBlockTime(key) == IF key[2] = 0 THEN Now ELSE key[2]

Mints == {"A", "B"}

OldTime == 7 * DAY + 5000
RecentTime == 98 * DAY + 1000

\* The key lists fetchPrices is called with.
KeyLists ==
    {<<priceKey("A", OldTime), priceKey("B", RecentTime)>>,
     <<priceKey("A", RecentTime), priceKey("A", 0), priceKey("B", OldTime)>>,
     <<priceKey("A", RecentTime), priceKey("B", RecentTime), priceKey("B", 0)>>}

\* The data points CoinGecko may hold for a mint, as <<time, price>> in
\* ascending time: none; around the old time; only well after the old
\* time; around the recent time and now; a price of 0 at the recent time.
MarketSeries ==
    {<<>>,
     << <<7 * DAY + 1200, 2>> >>,
     << <<9 * DAY + 500, 3>> >>,
     << <<98 * DAY + 40, 5>>, <<98 * DAY + 7200, 6>>, <<100 * DAY, 7>> >>,
     << <<98 * DAY, 0>>, <<100 * DAY, 7>> >>,
     << <<7 * DAY + 1200, 2>>, <<98 * DAY + 7200, 6>>, <<100 * DAY + 600, 7>> >>}

\* blockTimes of a mint in ranges
RECURSIVE BlockTimesOf(_, _)
BlockTimesOf(list, mint) ==
    IF list = <<>> THEN <<>>
    ELSE LET rest == BlockTimesOf(SubSeq(list, 1, Len(list) - 1), mint)
             key == list[Len(list)]
         IN IF key[1] = mint THEN Append(rest, KeyBlockTime(key)) ELSE rest

RangeMints(list) == {list[x][1] : x \in 1..Len(list)}

RECURSIVE MinOf(_)
MinOf(times) ==
    IF Len(times) = 1 THEN times[1]
    ELSE Min(times[Len(times)], MinOf(SubSeq(times, 1, Len(times) - 1)))

RECURSIVE MaxOf(_)
MaxOf(times) ==
    IF Len(times) = 1 THEN times[1]
    ELSE LET m == MaxOf(SubSeq(times, 1, Len(times) - 1))
         IN IF times[Len(times)] >= m THEN times[Len(times)] ELSE m

\* fetchHistoricalPrice: the points of [start, end], keyed by their time
\* rounded to the hour, a later point replacing an earlier one.
RECURSIVE HourlyMap(_, _, _)
HourlyMap(points, start, end) ==
    IF points = <<>> THEN <<>>
    ELSE LET rest == HourlyMap(SubSeq(points, 1, Len(points) - 1), start, end)
             point == points[Len(points)]
         IN IF point[1] >= start /\ point[1] <= end
            THEN MapSet(rest, roundToNearest(point[1], HOUR), point[2])
            ELSE rest

fetchHistoricalPrice(series, start, end) ==
    IF ~(end - start > HALF_HOUR) THEN Throw("Price range too small")
    ELSE [ok |-> TRUE, prices |-> HourlyMap(series, start, end)]

\* The while loop of fetchHistoricalPriceBatched.
RECURSIVE FetchBatches(_, _, _, _)
FetchBatches(series, start, max, prices) ==
    IF ~(start < max) THEN [ok |-> TRUE, prices |-> prices]
    ELSE LET cutoffTime == Now - 90 * DAY
             olderThan90Days == start < cutoffTime
             end == IF olderThan90Days THEN cutoffTime ELSE Min(start + DAY * 60, max)
         IN \* bound once: the batch and the map after it
            Only({IF ~batch.ok THEN batch
                  ELSE FetchBatches(series, end, max,
                           [t \in DOMAIN prices \cup DOMAIN batch.prices |->
                               IF t \in DOMAIN batch.prices THEN batch.prices[t]
                               ELSE prices[t]]) :
                  batch \in {fetchHistoricalPrice(series, start, end)}})

\* if (price): a number other than 0
Truthy(map, t) == t \in DOMAIN map /\ map[t] # 0

\* The values of i the two fill loops run through.
Hours(min, max) == {min + n * HOUR : n \in 0..((max - min) \div HOUR)}

\* for (let i = min; i <= max; i += HOUR): an hour without an entry takes
\* the price of the hour before it, itself filled or not.  In one step:
\* it takes the price of the nearest earlier entry, from min - HOUR on,
\* unless that price is 0.
FillForward(prices, min, max) ==
    LET Earlier(hour) == {t \in DOMAIN prices : t < hour /\ t >= min - HOUR}
        Nearest(hour) == CHOOSE t \in Earlier(hour) : \A u \in Earlier(hour) : u <= t
        filled == {hour \in Hours(min, max) \ DOMAIN prices :
                      Earlier(hour) # {} /\ prices[Nearest(hour)] # 0}
    IN [t \in DOMAIN prices \cup filled |->
           IF t \in DOMAIN prices THEN prices[t] ELSE prices[Nearest(t)]]

\* for (let i = max; i >= min; i -= HOUR): the same from the hour after.
FillBackward(prices, max, min) ==
    LET Later(hour) == {t \in DOMAIN prices : t > hour /\ t <= max + HOUR}
        Nearest(hour) == CHOOSE t \in Later(hour) : \A u \in Later(hour) : u >= t
        filled == {hour \in Hours(min, max) \ DOMAIN prices :
                      Later(hour) # {} /\ prices[Nearest(hour)] # 0}
    IN [t \in DOMAIN prices \cup filled |->
           IF t \in DOMAIN prices THEN prices[t] ELSE prices[Nearest(t)]]

fetchHistoricalPriceBatched(series, blockTimes) ==
    LET min == roundToNearest(MinOf(blockTimes) - HALF_DAY, DAY)
        max == roundToNearest(MaxOf(blockTimes) + HALF_DAY, DAY)
    IN Only({IF ~b.ok THEN b
             ELSE [ok |-> TRUE,
                   prices |-> FillBackward(FillForward(b.prices, min, max), max, min)] :
             b \in {FetchBatches(series, min, max, <<>>)}})

\* The loop over the keys once every task has settled: the price map, or
\* the invariant that fails.
RECURSIVE BuildPriceMap(_, _)
BuildPriceMap(list, stored) ==
    IF list = <<>> THEN [ok |-> TRUE, priceMap |-> <<>>]
    ELSE Only({IF ~rest.ok THEN rest
               ELSE LET key == list[Len(list)]
                        roundedBlockTime == roundToNearest(KeyBlockTime(key), HOUR)
                        prices == MapGet(stored, key[1])
                    IN IF prices # Undefined /\ DOMAIN prices[1] # {}
                       THEN IF ~Truthy(prices[1], roundedBlockTime)
                            THEN Throw("No price found")
                            ELSE [ok |-> TRUE,
                                  priceMap |-> MapSet(rest.priceMap, key,
                                                      Dec(prices[1][roundedBlockTime]))]
                       ELSE rest :
               rest \in {BuildPriceMap(SubSeq(list, 1, Len(list) - 1), stored)}})

InitPrices ==
    /\ keys \in KeyLists
    /\ market \in [Mints -> MarketSeries]
    /\ waiting = RangeMints(keys)
    /\ historicalPrices = <<>>
    /\ warned = {}
    /\ pricePc = "fetching"
    /\ fetched = <<>>
    /\ LedgerIdle
    /\ RunIdle
    /\ GatherIdle
    /\ OutputIdle
    /\ OwnersIdle
    /\ DecodeIdle
    /\ ExtractIdle

\* The task of a mint with every CoinGecko request answered: the series is
\* stored, or the invariant on the batch range throws and is caught.
MintResolves(mint) ==
    /\ pricePc = "fetching"
    /\ mint \in waiting
    /\ \E r \in {fetchHistoricalPriceBatched(market[mint], BlockTimesOf(keys, mint))} :
          IF r.ok
          THEN /\ historicalPrices' = MapSet(historicalPrices, mint, r.prices)
               /\ UNCHANGED warned
          ELSE /\ warned' = warned \cup {mint}
               /\ UNCHANGED historicalPrices
    /\ waiting' = waiting \ {mint}
    /\ UNCHANGED <<keys, market, pricePc, fetched>>
    /\ UNCHANGED <<ledgerVars, runVars, gatherVars, outputVars, ownerVars, decodeVars, extractVars>>

\* The task of a mint with a request that rejects, a status other than 200
\* or no coin id for the mint: caught, warned.
MintRejects(mint) ==
    /\ pricePc = "fetching"
    /\ mint \in waiting
    /\ warned' = warned \cup {mint}
    /\ waiting' = waiting \ {mint}
    /\ UNCHANGED <<keys, market, historicalPrices, pricePc, fetched>>
    /\ UNCHANGED <<ledgerVars, runVars, gatherVars, outputVars, ownerVars, decodeVars, extractVars>>

\* queue.addAll has resolved: the loop over the keys.
LookUpKeys ==
    /\ pricePc = "fetching"
    /\ waiting = {}
    /\ \E r \in {BuildPriceMap(keys, historicalPrices)} :
          IF r.ok
          THEN /\ pricePc' = "returned"
               /\ fetched' = r.priceMap
          ELSE /\ pricePc' = "threw"
               /\ UNCHANGED fetched
    /\ UNCHANGED <<keys, market, waiting, historicalPrices, warned>>
    /\ UNCHANGED <<ledgerVars, runVars, gatherVars, outputVars, ownerVars, decodeVars, extractVars>>

NextPrices ==
    \/ \E mint \in Mints : MintResolves(mint) \/ MintRejects(mint)
    \/ LookUpKeys

SpecPrices == InitPrices /\ [][NextPrices]_vars

----------------------------------------------------------------------------
(* fetchPositionOwners: one queue task per position; a task checks the     *)
(* value of the position and the cap, then awaits the owner lookup.        *)

QueueConcurrency == 10

Wallets == {"w1", "w2"}

\* Up to MaxPositions positions, named by their index.
PositionLists ==
    UNION {[1..n -> [wallet : Wallets, valued : BOOLEAN]] : n \in 0..MaxPositions}

\* The tasks the queue is running.
Running == {p \in DOMAIN lookup : lookup[p] = "awaiting"}

InitOwners ==
    /\ livePositions \in PositionLists
    /\ maximumCount \in 0..MaxPositions
    /\ lookup = [p \in DOMAIN livePositions |-> "queued"]
    /\ ownerMap = <<>>
    /\ ownerSet = {}
    /\ ownersPc = "fetching"
    /\ LedgerIdle
    /\ RunIdle
    /\ GatherIdle
    /\ PricesIdle
    /\ OutputIdle
    /\ DecodeIdle
    /\ ExtractIdle

\* The queue starts the next task: it runs up to its await, or returns at
\* once when the position has no value or the cap is reached.
StartLookup(p) ==
    /\ p \in DOMAIN lookup
    /\ lookup[p] = "queued"
    /\ \A q \in 1..(p - 1) : lookup[q] # "queued"
    /\ Cardinality(Running) < QueueConcurrency
    /\ lookup' = [lookup EXCEPT ![p] =
                     IF \/ ~livePositions[p].valued
                        \/ maximumCount # 0 /\ Cardinality(ownerSet) >= maximumCount
                     THEN "done" ELSE "awaiting"]
    /\ UNCHANGED <<livePositions, maximumCount, ownerMap, ownerSet, ownersPc>>
    /\ UNCHANGED <<ledgerVars, runVars, gatherVars, priceVars, outputVars, decodeVars, extractVars>>

\* getPositionWallet resolves: the owner is recorded.
LookupResolves(p) ==
    /\ p \in DOMAIN lookup
    /\ lookup[p] = "awaiting"
    /\ ownerMap' = MapSet(ownerMap, p, livePositions[p].wallet)
    /\ ownerSet' = ownerSet \cup {livePositions[p].wallet}
    /\ lookup' = [lookup EXCEPT ![p] = "done"]
    /\ UNCHANGED <<livePositions, maximumCount, ownersPc>>
    /\ UNCHANGED <<ledgerVars, runVars, gatherVars, priceVars, outputVars, decodeVars, extractVars>>

\* getPositionWallet rejects or throws: caught, a warning and nothing else.
LookupRejects(p) ==
    /\ p \in DOMAIN lookup
    /\ lookup[p] = "awaiting"
    /\ lookup' = [lookup EXCEPT ![p] = "done"]
    /\ UNCHANGED <<livePositions, maximumCount, ownerMap, ownerSet, ownersPc>>
    /\ UNCHANGED <<ledgerVars, runVars, gatherVars, priceVars, outputVars, decodeVars, extractVars>>

\* queue.addAll has resolved: ownerMap is returned.
ReturnOwners ==
    /\ ownersPc = "fetching"
    /\ \A p \in DOMAIN lookup : lookup[p] = "done"
    /\ ownersPc' = "returned"
    /\ UNCHANGED <<livePositions, maximumCount, lookup, ownerMap, ownerSet>>
    /\ UNCHANGED <<ledgerVars, runVars, gatherVars, priceVars, outputVars, decodeVars, extractVars>>

NextOwners ==
    \/ \E p \in 1..MaxPositions : StartLookup(p) \/ LookupResolves(p) \/ LookupRejects(p)
    \/ ReturnOwners

SpecOwners == InitOwners /\ [][NextOwners]_vars

----------------------------------------------------------------------------
(* decodeTransactions over the instructions of one transaction, outer and  *)
(* inner in the order extractInstructions gives them.  A dual-token        *)
(* whirlpool instruction takes its amounts from the spl-token transfers    *)
(* that follow it.  Indices start at 1.                                    *)

WhirlpoolInstruction(name) == [program |-> "whirlpool", name |-> name]

\* A parsed spl-token instruction; only a transfer carries the amount read.
TokenInstruction(type, amount) ==
    [program |-> "spl-token", parsedType |-> type, amount |-> amount]

\* An openPosition instruction with the data the coder decoded from it.
OpenInstruction(name, data) == [program |-> "whirlpool", name |-> name, data |-> data]

TickData == [tickLowerIndex |-> -5, tickUpperIndex |-> 9]

\* Data without the tick fields.
BumpsOnly == [bumps |-> 255]

SiblingKinds ==
    {WhirlpoolInstruction(name) :
        name \in {"increaseLiquidity", "decreaseLiquidity", "collectFees",
                  "collectReward", "closePosition", "swap"}}
    \cup {OpenInstruction("openPosition", TickData),
          OpenInstruction("openPositionWithMetadata", TickData),
          OpenInstruction("openPosition", BumpsOnly)}
    \cup {TokenInstruction("transfer", amount) : amount \in {0, 7}}
    \cup {TokenInstruction("mintTo", 1)}

SiblingLists == UNION {[1..n -> SiblingKinds] : n \in 0..MaxSiblings}

IsTransfer(instruction) ==
    instruction.program = "spl-token" /\ instruction.parsedType = "transfer"

\* The for loop of nextTokenTransferAmount from position i on: the amount
\* and the index of the first transfer, or undefined.
RECURSIVE ScanForTransfer(_, _)
ScanForTransfer(from, list) ==
    IF from > Len(list) THEN Undefined
    ELSE IF IsTransfer(list[from]) THEN <<list[from].amount, from>>
    ELSE ScanForTransfer(from + 1, list)

\* Variant: the scan starts at the given index itself.
nextTokenTransferAmountFromIndex(index, list) == ScanForTransfer(index, list)

nextTokenTransferAmount(index, list) == ScanForTransfer(index + 1, list)

\* decodeIncreaseLiquidity, decodeDecreaseLiquidity, decodeCollectFee: two
\* lookups, the second from where the first one stopped.
DecodeDualToken(type, fieldA, fieldB, index, list) ==
    Only({IF first = Undefined THEN Throw("Could not find amount")
          ELSE Only({IF second = Undefined THEN Throw("Could not find amount")
                     ELSE [ok |-> TRUE,
                           decoded |-> [x \in {"type", fieldA, fieldB} |->
                                           CASE x = "type" -> type
                                             [] x = fieldA -> first[1]
                                             [] x = fieldB -> second[1]]] :
                     second \in {nextTokenTransferAmount(first[2], list)}}) :
          first \in {nextTokenTransferAmount(index, list)}})

decodeCollectReward(index, list) ==
    Only({IF found = Undefined THEN Throw("Could not find reward amount")
          ELSE [ok |-> TRUE,
                decoded |-> [type |-> "collectReward", rewardAmount |-> found[1]]] :
          found \in {nextTokenTransferAmount(index, list)}})

\* decodeOpenPosition, for openPosition and openPositionWithMetadata.
decodeOpenPosition(data, name) ==
    IF "tickLowerIndex" \notin DOMAIN data
    THEN Throw("Instruction data does not contain tickLowerIndex")
    ELSE IF "tickUpperIndex" \notin DOMAIN data
    THEN Throw("Instruction data does not contain tickUpperIndex")
    ELSE [ok |-> TRUE,
          decoded |-> [type |-> "openPosition",
                       tickUpperIndex |-> data.tickLowerIndex,
                       tickLowerIndex |-> data.tickUpperIndex,
                       rentFee |-> IF name = "openPositionWithMetadata"
                                   THEN PAYABLE_RENT_LAMPORTS
                                   ELSE PAYABLE_RENT_LAMPORTS_WITHOUT_METADATA]]

\* decodeTransaction(index, instructions): the handler by name, its result
\* spread together with the instruction itself.
decodeTransaction(index, list) ==
    LET instruction == list[index]
    IN IF instruction.program # "whirlpool"
       THEN Throw("Instruction is not a whirlpool instruction")
       ELSE Only({IF ~r.ok THEN r
                  ELSE [ok |-> TRUE, decoded |-> instruction @@ r.decoded] :
                  r \in {CASE instruction.name \in {"openPosition", "openPositionWithMetadata"} ->
                                decodeOpenPosition(instruction.data, instruction.name)
                            [] instruction.name = "increaseLiquidity" ->
                                DecodeDualToken("increaseLiquidity", "tokenAIn", "tokenBIn",
                                                index, list)
                            [] instruction.name = "decreaseLiquidity" ->
                                DecodeDualToken("decreaseLiquidity", "tokenAOut", "tokenBOut",
                                                index, list)
                            [] instruction.name = "collectFees" ->
                                DecodeDualToken("collectFees", "tokenAFee", "tokenBFee",
                                                index, list)
                            [] instruction.name = "collectReward" ->
                                decodeCollectReward(index, list)
                            [] instruction.name = "closePosition" ->
                                [ok |-> TRUE, decoded |-> [type |-> "closePosition"]]
                            [] OTHER ->
                                Throw("Instruction data name is not supported")}})

InitDecode ==
    /\ siblings \in SiblingLists
    /\ j = 0
    /\ outcomes = <<>>
    /\ decodePc = "decoding"
    /\ LedgerIdle
    /\ RunIdle
    /\ GatherIdle
    /\ PricesIdle
    /\ OutputIdle
    /\ OwnersIdle
    /\ ExtractIdle

\* Variant: no try/catch in the loop, a throw leaves decodeTransactions.
DecodeNextUncaught ==
    /\ decodePc = "decoding"
    /\ j < Len(siblings)
    /\ \E r \in {decodeTransaction(j + 1, siblings)} :
          /\ outcomes' = Append(outcomes, IF r.ok THEN <<r.decoded>> ELSE <<>>)
          /\ decodePc' = IF r.ok THEN decodePc ELSE "threw"
    /\ j' = j + 1
    /\ UNCHANGED siblings
    /\ UNCHANGED <<ledgerVars, runVars, gatherVars, priceVars, outputVars, ownerVars, extractVars>>

\* One pass of the inner loop: push the decoded instruction, or continue
\* when decodeTransaction throws.
DecodeNext ==
    /\ decodePc = "decoding"
    /\ j < Len(siblings)
    /\ \E r \in {decodeTransaction(j + 1, siblings)} :
          outcomes' = Append(outcomes, IF r.ok THEN <<r.decoded>> ELSE <<>>)
    /\ j' = j + 1
    /\ UNCHANGED <<siblings, decodePc>>
    /\ UNCHANGED <<ledgerVars, runVars, gatherVars, priceVars, outputVars, ownerVars, extractVars>>

DecodeDone ==
    /\ decodePc = "decoding"
    /\ j = Len(siblings)
    /\ decodePc' = "decoded"
    /\ UNCHANGED <<siblings, j, outcomes>>
    /\ UNCHANGED <<ledgerVars, runVars, gatherVars, priceVars, outputVars, ownerVars, extractVars>>

NextDecode == DecodeNext \/ DecodeDone

SpecDecode == InitDecode /\ [][NextDecode]_vars

----------------------------------------------------------------------------
(* gatherInstructions: the tail of gatherTransactions, extractInstructions *)
(* for every gathered transaction, and the grouping by signature.          *)

MaxTopLevel == 2

\* An instruction of the transaction message and an instruction called by
\* the top-level instruction at an index (0-based, as in the RPC answer).
TopLevelInstruction(index) == [level |-> "top", index |-> index]
InnerInstruction(index, call) == [level |-> "inner", index |-> index, call |-> call]

\* One entry of meta.innerInstructions.
InnerEntry(index, count) ==
    [index |-> index,
     instructions |-> [call \in 1..count |-> InnerInstruction(index, call)]]

InnerCounts == 0..2

\* What the chain holds for a signature: per top-level instruction the
\* number of inner calls, whether the transaction failed, its block time
\* (none when the node reports null), whether the node has its meta, and
\* whether getParsedTransactions finds it at all.
AnyShapes ==
    {[counts |-> counts, failed |-> failed, blockTime |-> blockTime,
      hasMeta |-> TRUE, found |-> TRUE] :
        counts \in UNION {[1..n -> InnerCounts] : n \in 0..MaxTopLevel},
        failed \in BOOLEAN, blockTime \in {Undefined, <<1>>}}
PlainShapes ==
    {[counts |-> <<0>>, failed |-> FALSE, blockTime |-> <<2>>,
      hasMeta |-> hasMeta, found |-> found] :
        hasMeta \in BOOLEAN, found \in BOOLEAN}
Chains == {[s \in Signatures |-> IF s = "s1" THEN first ELSE second] :
              first \in AnyShapes, second \in PlainShapes}

\* The signature history of an address, newest first.
SignatureHistories == {<<>>, <<"s2">>, <<"s1">>, <<"s2", "s1">>}

ParsedTransaction(shape) ==
    [message |->
        [instructions |->
            [n \in 1..Len(shape.counts) |-> TopLevelInstruction(n - 1)]],
     meta |->
        IF shape.hasMeta
        THEN <<[err |-> shape.failed,
                fee |-> 5000,
                innerInstructions |->
                    SelectSeq([n \in 1..Len(shape.counts) |->
                                  InnerEntry(n - 1, shape.counts[n])],
                              LAMBDA entry : entry.instructions # <<>>)]>>
        ELSE Undefined,
     blockTime |-> shape.blockTime]

\* connection.getParsedTransactions: one answer per signature asked for,
\* null for a transaction the node does not find.
getParsedTransactions(sigs, c) ==
    [x \in 1..Len(sigs) |->
        IF c[sigs[x]].found THEN <<ParsedTransaction(c[sigs[x]])>> ELSE Undefined]

\* The ConfirmedSignatureInfo objects one address's history answers with.
\* Each answer is parsed into objects of its own: ref tells them apart.
SignatureInfos(address, list, c) ==
    [x \in 1..Len(list) |->
        [ref |-> <<address, x>>,
         signature |-> list[x],
         err |-> c[list[x]].failed,
         blockTime |-> c[list[x]].blockTime]]

\* Array.from(new Set(x)): insertion order, a value kept once.  Objects are
\* the same value only when they are the same object.
RECURSIVE UniqueValues(_)
UniqueValues(list) ==
    IF list = <<>> THEN <<>>
    ELSE LET rest == UniqueValues(SubSeq(list, 1, Len(list) - 1))
             last == list[Len(list)]
         IN IF \E x \in 1..Len(rest) : rest[x] = last THEN rest
            ELSE Append(rest, last)

\* { ...transaction, ...signature }
GatheredTransaction(transaction, info) ==
    [message |-> transaction.message,
     meta |-> transaction.meta,
     signature |-> info.signature,
     err |-> info.err,
     blockTime |-> info.blockTime]

\* The loop of gatherTransactions over signatures[i], transactions[i].
RECURSIVE PairTransactions(_, _, _)
PairTransactions(sigs, transactions, n) ==
    IF n = 0 THEN <<>>
    ELSE LET before == PairTransactions(sigs, transactions, n - 1)
         IN IF transactions[n] # Undefined
            THEN Append(before, GatheredTransaction(transactions[n][1], sigs[n]))
            ELSE before

\* innerInstructions.find((inner) => inner.index === index)
RECURSIVE FindInner(_, _, _)
FindInner(innerInstructions, index, from) ==
    IF from > Len(innerInstructions) THEN Undefined
    ELSE IF innerInstructions[from].index = index THEN <<innerInstructions[from]>>
    ELSE FindInner(innerInstructions, index, from + 1)

\* The instructions of the first n entries of meta.innerInstructions.
RECURSIVE InnerCalls(_, _)
InnerCalls(innerInstructions, n) ==
    IF n = 0 THEN <<>>
    ELSE InnerCalls(innerInstructions, n - 1) \o innerInstructions[n].instructions

\* Variant: the inner instructions follow all the top-level ones.
TopLevelThenInner(list, innerInstructions, n) ==
    LET called == SelectSeq(innerInstructions, LAMBDA entry : entry.index < n)
    IN SubSeq(list, 1, n) \o InnerCalls(called, Len(called))

\* orderedInstructions after n rounds of the loop of extractInstructions.
RECURSIVE OrderedInstructions(_, _, _)
OrderedInstructions(list, innerInstructions, n) ==
    IF n = 0 THEN <<>>
    ELSE LET pushed == Append(OrderedInstructions(list, innerInstructions, n - 1),
                              list[n])
             innerInstruction == FindInner(innerInstructions, n - 1, 1)
         IN IF innerInstruction # Undefined
            THEN pushed \o innerInstruction[1].instructions
            ELSE pushed

TransactionFailed(transaction) ==
    IF transaction.err THEN TRUE
    ELSE IF transaction.meta = Undefined THEN FALSE
    ELSE transaction.meta[1].err

extractInstructions(transaction) ==
    IF TransactionFailed(transaction) THEN <<>>
    ELSE LET innerInstructions ==
                 IF transaction.meta = Undefined THEN <<>>
                 ELSE transaction.meta[1].innerInstructions
             orderedInstructions ==
                 OrderedInstructions(transaction.message.instructions,
                                     innerInstructions,
                                     Len(transaction.message.instructions))
         IN [x \in 1..Len(orderedInstructions) |->
                [signature |-> transaction.signature,
                 blockTime |-> IF transaction.blockTime = Undefined THEN 0
                               ELSE transaction.blockTime[1],
                 transactionFee |-> IF transaction.meta = Undefined THEN 0
                                    ELSE transaction.meta[1].fee]
                @@ orderedInstructions[x]]

\* instructions.reduce(...) into a Map keyed by signature.
RECURSIVE GroupBySignature(_)
GroupBySignature(list) ==
    IF list = <<>> THEN <<>>
    ELSE LET acc == GroupBySignature(SubSeq(list, 1, Len(list) - 1))
             instruction == list[Len(list)]
             current == IF instruction.signature \in DOMAIN acc
                        THEN acc[instruction.signature] ELSE <<>>
         IN MapSet(acc, instruction.signature, Append(current, instruction))

InitExtract ==
    /\ chain \in Chains
    /\ \E first, second \in SignatureHistories :
          infos = SignatureInfos(AddressOrder[1], first, chain)
                  \o SignatureInfos(AddressOrder[2], second, chain)
    /\ transactionsAndInfos = <<>>
    /\ cursor = 0
    /\ extracted = <<>>
    /\ transactionInstructions = <<>>
    /\ extractPc = "signatures"
    /\ LedgerIdle
    /\ RunIdle
    /\ GatherIdle
    /\ PricesIdle
    /\ OutputIdle
    /\ OwnersIdle
    /\ DecodeIdle

\* gatherTransactions from the Set of signatures to its return.
GatherTransactionsReturn ==
    /\ extractPc = "signatures"
    /\ \E sigs \in {UniqueValues(infos)} :
          transactionsAndInfos' =
              PairTransactions(sigs,
                               getParsedTransactions(
                                   [x \in 1..Len(sigs) |-> sigs[x].signature], chain),
                               Len(sigs))
    /\ extractPc' = "extract"
    /\ UNCHANGED <<chain, infos, cursor, extracted, transactionInstructions>>
    /\ UNCHANGED <<ledgerVars, runVars, gatherVars, priceVars, outputVars, ownerVars, decodeVars>>

\* transactions.flatMap(extractInstructions), one transaction at a time.
ExtractNext ==
    /\ extractPc = "extract"
    /\ cursor < Len(transactionsAndInfos)
    /\ extracted' = extracted \o extractInstructions(transactionsAndInfos[cursor + 1])
    /\ cursor' = cursor + 1
    /\ UNCHANGED <<chain, infos, transactionsAndInfos, transactionInstructions, extractPc>>
    /\ UNCHANGED <<ledgerVars, runVars, gatherVars, priceVars, outputVars, ownerVars, decodeVars>>

ReturnInstructions ==
    /\ extractPc = "extract"
    /\ cursor = Len(transactionsAndInfos)
    /\ transactionInstructions' = GroupBySignature(extracted)
    /\ extractPc' = "done"
    /\ UNCHANGED <<chain, infos, transactionsAndInfos, cursor, extracted>>
    /\ UNCHANGED <<ledgerVars, runVars, gatherVars, priceVars, outputVars, ownerVars, decodeVars>>

NextExtract == GatherTransactionsReturn \/ ExtractNext \/ ReturnInstructions

SpecExtract == InitExtract /\ [][NextExtract]_vars

----------------------------------------------------------------------------
(* Properties.                                                             *)

ThresholdMessage == "Deposited value to small to accurately analyze"

\* The loop of analyzeInstructions has consumed every instruction.
LoopFinished == pc = "loop" /\ i > Len(instructions)

\* Liquidity deposited and not yet withdrawn before the n-th instruction.
RECURSIVE LiquidityBefore(_, _)
LiquidityBefore(list, n) ==
    IF n <= 1 THEN 0
    ELSE LET e == list[n - 1]
         IN LiquidityBefore(list, n - 1)
            + (IF e.type = "increaseLiquidity" THEN e.liquidityIn
               ELSE IF e.type = "decreaseLiquidity" THEN -e.liquidityOut
               ELSE 0)

\* The n-th instruction is a decrease whose fraction is within (0, 1].
FractionInRange(list, n) ==
    /\ list[n].liquidityOut > 0
    /\ LiquidityBefore(list, n) > 0
    /\ list[n].liquidityOut <= LiquidityBefore(list, n)

\* C1: analyzeInstructions returns totals only when every decreaseLiquidity
\* it accounted had a withdrawn fraction liquidityOut / total liquidity in
\* (0, 1]; a zero liquidityOut, one above the rolling total, or a rolling
\* total of zero makes the accounting fail instead.
C1_FractionOutsideRangeFails ==
    totals # Undefined =>
        \A n \in 1..Len(instructions) :
            instructions[n].type = "decreaseLiquidity" => FractionInRange(instructions, n)

\* The summaries of the first n lists of a batch whose analysis succeeds,
\* in the order of the batch.
RECURSIVE SummariesOf(_, _)
SummariesOf(batch, n) ==
    IF n = 0 THEN <<>>
    ELSE LET r == analyzePosition(batch[n], positionMap)
         IN IF r.ok THEN Append(SummariesOf(batch, n - 1), r.summary)
            ELSE SummariesOf(batch, n - 1)

\* C2: analyzePositions never throws and returns exactly the summaries of
\* the lists whose analyzePosition succeeds, in input order; a failing list
\* adds nothing and does not stop the lists after it.
C2_BatchIsolation ==
    /\ pc \in {"batch", "batchDone"}
    /\ k <= Len(decoded)
    /\ summaries = SummariesOf(decoded, k)
    /\ pc = "batchDone" => k = Len(decoded)

\* A returned batch in which a failing list precedes a successful one.
C2_Witness ==
    /\ pc = "batchDone"
    /\ \E x, y \in 1..Len(decoded) :
          /\ x < y
          /\ ~analyzePosition(decoded[x], positionMap).ok
          /\ analyzePosition(decoded[y], positionMap).ok
    /\ Len(summaries) >= 1
    /\ Len(summaries) < Len(decoded)

\* C3: no summary has depositedValue below 1; the threshold rejects exactly
\* the positions whose totals have depositedValue below 1, and a position
\* whose totals reach 1 gets its summary.
C3_MaterialityGuard ==
    /\ summary # Undefined => Gte(summary[1].depositedValue, Dec(1))
    /\ error = ThresholdMessage =>
          /\ totals # Undefined
          /\ ~Gte(totals[1].depositedValue, Dec(1))
          /\ summary = Undefined
    /\ (pc \in {"done", "failed"} /\ totals # Undefined
          /\ Gte(totals[1].depositedValue, Dec(1))) => summary # Undefined

\* A position with a deposit of 0.50 rejected by the threshold.
C3_Witness ==
    /\ pc = "failed"
    /\ error = ThresholdMessage
    /\ totals # Undefined
    /\ totals[1].depositedValue = <<1, 2>>

PriceA(ins) == priceMap[priceKey(CurrentPool.tokenMintA, ins.blockTime)]
PriceB(ins) == priceMap[priceKey(CurrentPool.tokenMintB, ins.blockTime)]
PriceSol(ins) == priceMap[priceKey(NATIVE_MINT, ins.blockTime)]
UiA(amount) == convertToUiAmount(amount, tokenMap[CurrentPool.tokenMintA].decimals)
UiB(amount) == convertToUiAmount(amount, tokenMap[CurrentPool.tokenMintB].decimals)
UiSol(amount) == convertToUiAmount(amount, tokenMap[NATIVE_MINT].decimals)

\* The loop is about to account a decreaseLiquidity and does not throw.
DecreaseStep ==
    /\ pc = "loop"
    /\ i <= Len(instructions)
    /\ instructions[i].type = "decreaseLiquidity"
    /\ pc' = "loop"

\* The increase and decrease of the scenario: Increase(liquidity 100,
\* 10 A at price 1, no B) and Decrease(liquidity 40, 4 A out at price 1.10).
IsScenarioIncrease(e) ==
    /\ e.type = "increaseLiquidity"
    /\ e.liquidityIn = 100
    /\ UiA(e.tokenAIn) = Dec(10)
    /\ e.tokenBIn = 0
    /\ PriceA(e) = Dec(1)

IsScenarioDecrease(e) ==
    /\ e.type = "decreaseLiquidity"
    /\ e.liquidityOut = 40
    /\ UiA(e.tokenAOut) = Dec(4)
    /\ e.tokenBOut = 0
    /\ PriceA(e) = <<11, 10>>

LiquidityEvents(list) ==
    SelectSeq(list, LAMBDA e : e.type \in {"increaseLiquidity", "decreaseLiquidity"})

\* C5: accounting a decreaseLiquidity of L units at rolling total T adds to
\* forgoneValue the fraction L/T of each rolling balance at the price of the
\* event, leaves the fraction 1 - L/T of each balance and T - L liquidity;
\* after Increase(100, 10 A at 1) the Decrease(40, 4 A at 1.10) gives
\* depositedValue 10, withdrawnValue 4.40, a forgone contribution of 4.40
\* and a rolling token A balance of 6.
C5_StepRelation ==
    DecreaseStep =>
        LET e == instructions[i]
            fraction == Div(Dec(e.liquidityOut), Dec(ledger.totalLiquidity))
            remaining == Minus(Dec(1), fraction)
            contribution ==
                Plus(Mul(Mul(fraction, ledger.rollingTokenAAmount), PriceA(e)),
                     Mul(Mul(fraction, ledger.rollingTokenBAmount), PriceB(e)))
        IN /\ ledger'.forgoneValue = Plus(ledger.forgoneValue, contribution)
           /\ ledger'.rollingTokenAAmount = Mul(remaining, ledger.rollingTokenAAmount)
           /\ ledger'.rollingTokenBAmount = Mul(remaining, ledger.rollingTokenBAmount)
           /\ ledger'.totalLiquidity = ledger.totalLiquidity - e.liquidityOut
           /\ (/\ IsScenarioDecrease(e)
               /\ Len(LiquidityEvents(SubSeq(instructions, 1, i - 1))) = 1
               /\ IsScenarioIncrease(LiquidityEvents(SubSeq(instructions, 1, i - 1))[1]))
              => /\ ledger'.depositedValue = Dec(10)
                 /\ ledger'.withdrawnValue = <<22, 5>>
                 /\ Minus(ledger'.forgoneValue, ledger.forgoneValue) = <<22, 5>>
                 /\ ledger'.rollingTokenAAmount = Dec(6)

C5_ProportionalAllocation == [][C5_StepRelation]_vars

\* The scenario has just been accounted.
C5_Witness ==
    /\ pc = "loop"
    /\ i > 1
    /\ IsScenarioDecrease(instructions[i - 1])
    /\ Len(LiquidityEvents(SubSeq(instructions, 1, i - 2))) = 1
    /\ IsScenarioIncrease(LiquidityEvents(SubSeq(instructions, 1, i - 2))[1])
    /\ ledger.rollingTokenAAmount = Dec(6)
    /\ ledger.forgoneValue = <<22, 5>>
    /\ ledger.totalLiquidity = 60

\* Exactly one increase and then one decrease of all of its liquidity, and
\* no other liquidity event.
OneIncreaseOneFullDecrease ==
    LET events == LiquidityEvents(instructions)
    IN /\ Len(events) = 2
       /\ events[1].type = "increaseLiquidity"
       /\ events[2].type = "decreaseLiquidity"
       /\ events[1].liquidityIn > 0
       /\ events[2].liquidityOut = events[1].liquidityIn

BalancesAreZero ==
    /\ ledger.rollingTokenAAmount = Zero
    /\ ledger.rollingTokenBAmount = Zero
    /\ ledger.totalLiquidity = 0

\* C6 as stated: after one increase of value V and one full decrease,
\* forgoneValue before the remaining-balance adjustment equals V and the
\* rolling balances and total liquidity are zero.
C6_ForgoneEqualsDeposit ==
    (LoopFinished /\ OneIncreaseOneFullDecrease) =>
        /\ ledger.forgoneValue = ledger.depositedValue
        /\ BalancesAreZero

\* C6 as amended: after one increase and one full decrease, forgoneValue
\* before the remaining-balance adjustment is the value of the deposited
\* amounts at the prices of the decrease (V when those are the prices of the
\* increase), and the rolling balances and total liquidity are zero.
C6_ForgoneIsDepositAtDecreasePrices ==
    (LoopFinished /\ OneIncreaseOneFullDecrease) =>
        LET inc == LiquidityEvents(instructions)[1]
            dec == LiquidityEvents(instructions)[2]
        IN /\ ledger.forgoneValue =
                  Plus(Mul(UiA(inc.tokenAIn), PriceA(dec)),
                       Mul(UiB(inc.tokenBIn), PriceB(dec)))
           /\ (PriceA(inc) = PriceA(dec) /\ PriceB(inc) = PriceB(dec))
                  => ledger.forgoneValue = ledger.depositedValue
           /\ BalancesAreZero

\* A full decrease at another price than the increase.
C6_Witness ==
    /\ LoopFinished
    /\ OneIncreaseOneFullDecrease
    /\ PriceA(LiquidityEvents(instructions)[1]) # PriceA(LiquidityEvents(instructions)[2])
    /\ ledger.forgoneValue # ledger.depositedValue
    /\ ledger.depositedValue # Zero

\* paidRent of a position opened with rent R in transaction sigOpen and
\* closed with reclaimed rent R in transaction sigClose.
RentRoundTrip(R, sigOpen, sigClose) ==
    analyzeInstructions(<<OpenPositionInstruction(sigOpen, "pool", position, R),
                          ClosePositionInstruction(sigClose, position, R)>>,
                        poolMap["pool"]).totals.paidRent

\* C7: paidRent is the rent fee of the open at the native price of its block
\* time minus the reclaimed rent of the close at the native price of its
\* block time; an open and a close of the same lamports R at the same price
\* leave exactly zero, and at a higher closing price a negative paidRent.
C7_RentLifecycle ==
    totals # Undefined =>
        LET open == OfType(instructions, "openPosition")[1]
            closes == OfType(instructions, "closePosition")
            paid == Mul(UiSol(open.rentFee), PriceSol(open))
            reclaimed ==
                IF Len(closes) = 1
                THEN Mul(UiSol(closes[1].reclaimedRent), PriceSol(closes[1]))
                ELSE Zero
        IN /\ totals[1].paidRent = Minus(paid, reclaimed)
           /\ \A R \in {open.rentFee, RECLAIMABLE_RENT_LAMPORTS} :
                 /\ \A sig \in Signatures : RentRoundTrip(R, sig, sig) = Zero
                 /\ RentRoundTrip(R, "s1", "s2")
                       = Mul(UiSol(R), Minus(PriceSol(Gathered("s1")),
                                             PriceSol(Gathered("s2"))))

\* A position closed at a higher native price than it was opened at: the
\* refund outweighs the rent paid.
C7_Witness ==
    /\ totals # Undefined
    /\ Len(OfType(instructions, "closePosition")) = 1
    /\ PriceSol(OfType(instructions, "openPosition")[1])
          # PriceSol(OfType(instructions, "closePosition")[1])
    /\ IsFinite(totals[1].paidRent)
    /\ totals[1].paidRent[1] < 0

\* C8: analyzeInstructions run again on the list it has already processed,
\* or on the list as it was decoded, returns the same eight totals.
C8_Idempotence ==
    pc = "returned" =>
        /\ analyzeInstructions(instructions, CurrentPool) =
              [ok |-> TRUE, totals |-> totals[1]]
        /\ analyzeInstructions(decoded, CurrentPool) =
              [ok |-> TRUE, totals |-> totals[1]]

\* Totals of a list the sort reordered, holding an increase and a decrease
\* of the same block time.
C8_Witness ==
    /\ pc = "returned"
    /\ instructions # decoded
    /\ \E x, y \in 1..Len(instructions) :
          /\ x < y
          /\ instructions[x].blockTime = instructions[y].blockTime
          /\ instructions[x].type = "increaseLiquidity"
          /\ instructions[y].type = "decreaseLiquidity"

\* C9: with non-negative amounts and liquidity and positive prices, every
\* total but paidRent is non-negative.
C9_NonNegativeTotals ==
    totals # Undefined =>
        /\ Gte(totals[1].depositedValue, Zero)
        /\ Gte(totals[1].withdrawnValue, Zero)
        /\ Gte(totals[1].forgoneValue, Zero)
        /\ Gte(totals[1].positionSize, Zero)
        /\ Gte(totals[1].collectedFeesValue, Zero)
        /\ Gte(totals[1].collectedRewardsValue, Zero)
        /\ Gte(totals[1].transactionCost, Zero)

\* The fee of the transactions in a set, each at the native price of its
\* block time.
RECURSIVE FeesOf(_)
FeesOf(sigs) ==
    IF sigs = {} THEN Zero
    ELSE LET sig == CHOOSE x \in sigs : TRUE
         IN Plus(FeesOf(sigs \ {sig}),
                 Mul(UiSol(Transactions[sig].fee),
                     priceMap[priceKey(NATIVE_MINT, Transactions[sig].blockTime)]))

SignaturesOf(list) == {list[n].signature : n \in 1..Len(list)}

\* C10: transactionCost is the sum over the distinct signatures of the
\* position's events of the transaction fee at the native price of its block
\* time: once per transaction, and every transaction counted.
C10_TransactionCost ==
    totals # Undefined =>
        totals[1].transactionCost = FeesOf(SignaturesOf(instructions))

\* Three events in two transactions.
C10_Witness ==
    /\ totals # Undefined
    /\ Len(instructions) = 3
    /\ Cardinality(SignaturesOf(instructions)) = 2

\* C11: the totals' forgoneValue is the forgoneValue the decreases have
\* accumulated (zero without a decrease) plus the rolling token A and B
\* balances left after the last event, each at the price stored under the
\* mint alone (the current price), not at any event-time price.
C11_RemainingBalanceAtCurrentPrice ==
    pc = "returned" =>
        LET mintA == CurrentPool.tokenMintA
            mintB == CurrentPool.tokenMintB
            remaining ==
                Plus(Mul(ledger.rollingTokenAAmount, priceMap[<<mintA, 0>>]),
                     Mul(ledger.rollingTokenBAmount, priceMap[<<mintB, 0>>]))
        IN /\ totals[1].forgoneValue = Plus(ledger.forgoneValue, remaining)
           /\ OfType(instructions, "decreaseLiquidity") = <<>>
                 => ledger.forgoneValue = Zero

\* Liquidity partly withdrawn: both terms are present, and the current
\* price of token A is the price of no event.
C11_Witness ==
    /\ pc = "returned"
    /\ IsFinite(ledger.forgoneValue) /\ ledger.forgoneValue[1] > 0
    /\ IsFinite(ledger.rollingTokenAAmount) /\ ledger.rollingTokenAAmount[1] > 0
    /\ totals[1].forgoneValue # ledger.forgoneValue
    /\ \A n \in 1..Len(instructions) :
          PriceA(instructions[n]) # priceMap[<<CurrentPool.tokenMintA, 0>>]

\* The list is not one open and at most one close.
Malformed(list) ==
    \/ Len(OfType(list, "openPosition")) # 1
    \/ Len(OfType(list, "closePosition")) > 1

\* C12: a summary only comes from a list with exactly one openPosition and
\* at most one closePosition; a list with no open, several opens or several
\* closes fails in analyzePosition before the ledger runs and gives no
\* summary.
C12_OneOpenAtMostOneClose ==
    /\ summary # Undefined => ~Malformed(instructions)
    /\ pc \in {"loop", "returned", "done"} => ~Malformed(instructions)
    /\ (pc = "failed" /\ Malformed(instructions)) =>
          /\ summary = Undefined
          /\ totals = Undefined
          /\ error \in {"No open instruction found.",
                         "More than one close instruction found."}

\* A list with one open and two closes was rejected.
C12_Witness ==
    /\ pc = "failed"
    /\ Len(OfType(instructions, "openPosition")) = 1
    /\ Len(OfType(instructions, "closePosition")) = 2
    /\ error = "More than one close instruction found."
    /\ summary = Undefined

\* C13: the process exits with a non-zero code when a step of run() that is
\* not isolated has rejected, and with 0 when the command completed.
C13_ExitOutcome ==
    exitCode # <<>> =>
        /\ settled = "fulfilled" => exitCode[1] = 0
        /\ settled = "caught" => exitCode[1] # 0

\* C14: a failed fetch for one address never makes gatherTransactions
\* reject; once it has returned, the result holds the signatures of every
\* address whose own fetch did not fail.
C14_AddressIsolation ==
    /\ gatherPc # "rejected"
    /\ gatherPc = "returned" =>
           \A a \in Addresses :
              task[a] = -1 =>
                 \A x \in 1..Len(signatures[a]) :
                    \E y \in 1..Len(gathered.pages) :
                       gathered.pages[y] = <<a, signatures[a][x]>>

\* The pages the node returned for address a, in request order, without
\* the empty ones.
ReturnedPages(a) ==
    LET answered == SelectSeq(calls[a], LAMBDA c : c.ok /\ PageLength(c.page) > 0)
    IN [x \in 1..Len(answered) |-> answered[x].page]

PagesOf(a) ==
    /\ Len(calls[a]) <= cycles
    /\ calls[a] # <<>> => calls[a][1].before = 0
    /\ \A n \in 2..Len(calls[a]) :
          /\ calls[a][n - 1].ok
          /\ PageLength(calls[a][n - 1].page) = TRANSACTIONS_LIMIT
          /\ calls[a][n].before = calls[a][n - 1].page[2]
    /\ task[a] >= 0 =>
          /\ Len(calls[a]) = task[a]
          /\ task[a] < cycles
          /\ \A n \in 1..Len(calls[a]) : PageLength(calls[a][n].page) = TRANSACTIONS_LIMIT
    /\ task[a] = -1 =>
          /\ calls[a] # <<>>
          /\ \/ PageLength(calls[a][Len(calls[a])].page) < TRANSACTIONS_LIMIT
             \/ Len(calls[a]) = cycles
          /\ signatures[a] = ReturnedPages(a)

\* C17: per address at most `cycles` page requests are issued, the first
\* from the newest signature and each later one from the last signature
\* accumulated, a later request follows only a full page of 1000, a
\* returned task holds the pages in request order, and every task ends.
C17_BoundedPagination ==
    /\ [](\A a \in Addresses : PagesOf(a))
    /\ <>(\A a \in Addresses : task[a] < 0)

\* An address with more history than `cycles` pages hold, cut off at the
\* cycle count after at least two requests.
C17_Witness ==
    \E a \in Addresses :
       /\ task[a] = -1
       /\ cycles >= 2
       /\ Len(calls[a]) = cycles
       /\ SignaturesLength(signatures[a]) = cycles * TRANSACTIONS_LIMIT
       /\ history[a] > SignaturesLength(signatures[a])

\* The keys of the mints whose series, as stored, has a price at the
\* rounded time of the key.
PricedKeys ==
    {keys[x] : x \in {y \in 1..Len(keys) :
        /\ keys[y][1] \in DOMAIN historicalPrices
        /\ Truthy(historicalPrices[keys[y][1]],
                  roundToNearest(KeyBlockTime(keys[y]), HOUR))}}

\* C15: fetchPrices never throws, whether the retrieval of a mint fails or
\* its series has no price at a requested hour; the map it returns holds
\* exactly the keys that have a price.
C15_MintIsolation ==
    /\ pricePc # "threw"
    /\ pricePc = "returned" => DOMAIN fetched = PricedKeys

\* C16: writePositionSummaries never rejects and writes one row per
\* summary it is given, open positions included, every field rendered and
\* every Decimal field with two decimal places.
C16_OneRowPerSummary ==
    /\ outPc # "rejected"
    /\ (outPc = "done" /\ csvPath) =>
          /\ Len(rows) = Len(output)
          /\ \A x \in 1..Len(rows) :
                /\ DOMAIN rows[x] = DOMAIN output[x]
                /\ \A field \in DecimalFields(output[x]) :
                      LET text == rows[x][field]
                      IN Len(text) >= 4 /\ SubSeq(text, Len(text) - 2, Len(text) - 2) = "."

\* The summaries of the positions that have a closePosition event.
WithCloseEvent(list) == SelectSeq(list, LAMBDA s : s.closedAt # Undefined)

\* C18: without include-open the output is exactly the analyzed positions
\* that have a closePosition event, with it every analyzed position.
C18_IncludeOpenFilter ==
    outPc \in {"writing", "done", "rejected"} =>
        output = IF includeOpen THEN summaries ELSE WithCloseEvent(summaries)

\* C19: with a cap of N > 0, the owners fetchPositionOwners returns belong
\* to at most N distinct wallets.
C19_ResultCap ==
    (ownersPc = "returned" /\ maximumCount > 0) =>
        Cardinality({ownerMap[p] : p \in DOMAIN ownerMap}) <= maximumCount

\* The instructions whose amounts come from the transfers after them.
LookaheadNames == {"increaseLiquidity", "decreaseLiquidity", "collectFees", "collectReward"}

\* The indices after index that hold an spl-token transfer.
TransfersAfter(index) == {x \in (index + 1)..Len(siblings) : IsTransfer(siblings[x])}

FirstOf(S) == CHOOSE x \in S : \A y \in S : x <= y

\* The two amounts a decoded instruction carries, by its type.
AmountsOf(d) ==
    CASE d.type = "increaseLiquidity" -> <<d.tokenAIn, d.tokenBIn>>
      [] d.type = "decreaseLiquidity" -> <<d.tokenAOut, d.tokenBOut>>
      [] d.type = "collectFees" -> <<d.tokenAFee, d.tokenBFee>>
      [] d.type = "collectReward" -> <<d.rewardAmount>>
      [] OTHER -> <<>>

TransferLookahead(index) ==
    LET name == siblings[index].name
        after == TransfersAfter(index)
        needed == IF name = "collectReward" THEN 1 ELSE 2
    IN IF Cardinality(after) < needed
       THEN outcomes[index] = <<>>
       ELSE /\ outcomes[index] # <<>>
            /\ outcomes[index][1].type = name
            /\ AmountsOf(outcomes[index][1])[1] = siblings[FirstOf(after)].amount
            /\ needed = 2 =>
                  AmountsOf(outcomes[index][1])[2]
                     = siblings[FirstOf(after \ {FirstOf(after)})].amount

\* C20: a decoded increaseLiquidity, decreaseLiquidity or collectFees takes
\* token A from the first transfer after it and token B from the first
\* transfer after that one, a collectReward takes the first transfer after
\* it, an instruction that lacks a transfer it needs is not decoded, and
\* decoding never changes the sibling list.
C20_TransferLookahead ==
    /\ [](\A index \in 1..Len(outcomes) :
            (/\ siblings[index].program = "whirlpool"
             /\ siblings[index].name \in LookaheadNames) => TransferLookahead(index))
    /\ [][siblings' = siblings]_vars

\* An increaseLiquidity decoded across an instruction that is no transfer,
\* its two amounts different.
C20_Witness ==
    /\ Len(outcomes) >= 1
    /\ siblings[1] = WhirlpoolInstruction("increaseLiquidity")
    /\ Len(siblings) = 4
    /\ ~IsTransfer(siblings[3])
    /\ outcomes[1] # <<>>
    /\ outcomes[1][1].tokenAIn = 7
    /\ outcomes[1][1].tokenBIn = 0

\* The number of transfers the decoder of a whirlpool instruction reads.
TransfersNeeded(name) ==
    CASE name = "collectReward" -> 1
      [] name \in LookaheadNames -> 2
      [] OTHER -> 0

\* The indices of the transfers a decoded instruction at index took its
\* amounts from.
TransfersUsed(index) ==
    LET after == TransfersAfter(index)
        needed == TransfersNeeded(siblings[index].name)
    IN {x \in after : Cardinality({y \in after : y < x}) < needed}

\* C21: a decoded instruction never takes the amount of a transfer that
\* follows a later whirlpool instruction of the sibling list; when its own
\* transfers are missing it is not decoded.
C21_NoUnrelatedTransfer ==
    \A index \in 1..Len(outcomes) :
       (siblings[index].program = "whirlpool" /\ outcomes[index] # <<>>) =>
          \A x \in TransfersUsed(index) :
             \A y \in (index + 1)..(x - 1) : siblings[y].program # "whirlpool"

\* The whirlpool instruction names decodeInstructionMap has a handler for.
SupportedNames ==
    LookaheadNames \cup {"openPosition", "openPositionWithMetadata", "closePosition"}

\* What makes decodeTransaction throw at index: another program, a name
\* without handler, data without the tick fields, a missing transfer.
Undecodable(index) ==
    LET instruction == siblings[index]
    IN \/ instruction.program # "whirlpool"
       \/ instruction.name \notin SupportedNames
       \/ /\ instruction.name \in {"openPosition", "openPositionWithMetadata"}
          /\ ~({"tickLowerIndex", "tickUpperIndex"} \subseteq DOMAIN instruction.data)
       \/ Cardinality(TransfersAfter(index)) < TransfersNeeded(instruction.name)

\* C22: decodeTransactions never throws; it skips exactly the instructions
\* that cannot be decoded, and what an instruction decodes to does not
\* depend on whether the instructions tried before it were skipped.
C22_DecodeLocalFailure ==
    /\ decodePc \in {"decoding", "decoded"}
    /\ decodePc = "decoded" => Len(outcomes) = Len(siblings)
    /\ \A index \in 1..Len(outcomes) :
          /\ outcomes[index] = <<>> <=> Undecodable(index)
          /\ outcomes[index] # <<>> =>
                /\ outcomes[index] = <<decodeTransaction(index, siblings).decoded>>
                /\ outcomes[index][1].name = siblings[index].name

\* A decoded instruction after a skipped one and before another skipped
\* one, the whole list tried.
C22_Witness ==
    /\ decodePc = "decoded"
    /\ Len(outcomes) >= 3
    /\ outcomes[1] = <<>>
    /\ siblings[1].program = "whirlpool"
    /\ outcomes[2] # <<>>
    /\ outcomes[Len(outcomes)] = <<>>

\* C30: a decoded openPosition carries the tick indices of its data, lower
\* as lower and upper as upper.
C30_TickIndices ==
    \A index \in 1..Len(outcomes) :
       (outcomes[index] # <<>> /\ outcomes[index][1].type = "openPosition") =>
          /\ outcomes[index][1].tickLowerIndex = siblings[index].data.tickLowerIndex
          /\ outcomes[index][1].tickUpperIndex = siblings[index].data.tickUpperIndex

\* The events of a list that carry the given block time, in list order.
AtBlockTime(list, t) == SelectSeq(list, LAMBDA e : e.blockTime = t)

\* C23: the list the ledger loop runs over is in non-decreasing block-time
\* order, and the events of one block time keep the order the decoder
\* found them in.
C23_StableTimeOrder ==
    pc \in {"loop", "returned", "done"} =>
        /\ Len(instructions) = Len(decoded)
        /\ \A x, y \in 1..Len(instructions) :
              x < y => instructions[x].blockTime <= instructions[y].blockTime
        /\ \A x \in 1..Len(decoded) :
              AtBlockTime(instructions, decoded[x].blockTime)
                 = AtBlockTime(decoded, decoded[x].blockTime)

\* The loop under way on a list decoded newest transaction first, two
\* events of the later transaction among them.
C23_Witness ==
    /\ pc = "loop"
    /\ i > 1
    /\ instructions # decoded
    /\ decoded[1].blockTime > decoded[Len(decoded)].blockTime
    /\ Len(AtBlockTime(decoded, decoded[1].blockTime)) >= 2

\* C24: once analyzePosition has returned or thrown, the event list it was
\* given holds the events in the order the decoder left them in.
C24_ListNotMutated ==
    pc \in {"returned", "done", "failed"} => instructions = decoded

\* depositedValue minus withdrawnValue after the first n events of a list.
RECURSIVE ExposureAfter(_, _)
ExposureAfter(list, n) ==
    IF n = 0 THEN Zero
    ELSE LET e == list[n]
             before == ExposureAfter(list, n - 1)
         IN CASE e.type = "increaseLiquidity" ->
                   Plus(before, Plus(Mul(UiA(e.tokenAIn), PriceA(e)),
                                     Mul(UiB(e.tokenBIn), PriceB(e))))
              [] e.type = "decreaseLiquidity" ->
                   Minus(before, Plus(Mul(UiA(e.tokenAOut), PriceA(e)),
                                      Mul(UiB(e.tokenBOut), PriceB(e))))
              [] OTHER -> before

\* The largest exposure over the prefixes of a list, 0 for the empty one.
RECURSIVE PeakExposure(_, _)
PeakExposure(list, n) ==
    IF n = 0 THEN Zero
    ELSE Max(PeakExposure(list, n - 1), ExposureAfter(list, n))

\* C26: the positionSize of the totals is the largest value depositedValue
\* minus withdrawnValue takes over the prefixes of the sorted event list,
\* prefixes that end in a decrease included, and at least 0.
C26_PeakExposure ==
    pc = "returned" =>
        totals[1].positionSize = PeakExposure(instructions, Len(instructions))

\* Totals of a list with a decrease before a later increase, the peak
\* below the sum of the deposits.
C26_Witness ==
    /\ pc = "returned"
    /\ \E x, y \in 1..Len(instructions) :
          /\ x < y
          /\ instructions[x].type = "decreaseLiquidity"
          /\ instructions[y].type = "increaseLiquidity"
    /\ Gte(totals[1].positionSize, Dec(1))
    /\ ~Gte(totals[1].positionSize, totals[1].depositedValue)

\* C27: every summary analyzePosition returns has a positionSize above 0,
\* the divisor of profitRatio, forgoneProfitRatio and opportunityCostRatio.
C27_PositiveSize ==
    (pc = "done" /\ summary # Undefined) =>
        /\ IsFinite(summary[1].positionSize)
        /\ ~Gte(Zero, summary[1].positionSize)

\* "tokenAMint" in instruction, "tokenBMint" in instruction: the decoded
\* increaseLiquidity, decreaseLiquidity and collectFees events carry the
\* mints of the vaults they moved tokens with, the others do not.
HasTokenMints(ins) ==
    ins.type \in {"increaseLiquidity", "decreaseLiquidity", "collectFees"}

\* PublicKey.default
DefaultMint == "11111111111111111111111111111111"

\* The keys computePriceFetchSet collects for one instruction.
TimedKeys(ins) ==
    {priceKey(NATIVE_MINT, ins.blockTime)}
    \cup (IF HasTokenMints(ins)
          THEN {priceKey(poolMap[ins.whirlpool].tokenMintA, ins.blockTime),
                priceKey(poolMap[ins.whirlpool].tokenMintB, ins.blockTime)}
          ELSE {})
    \cup (IF ins.type = "collectReward" /\ ins.rewardMint # DefaultMint
          THEN {priceKey(ins.rewardMint, ins.blockTime)}
          ELSE {})

computePriceFetchSet(list) ==
    LET timedPriceFetchSet == UNION {TimedKeys(list[x]) : x \in 1..Len(list)}
        currentPriceFetchSet == {priceKey(key[1], 0) : key \in timedPriceFetchSet}
    IN timedPriceFetchSet \cup currentPriceFetchSet

\* The keys analyzeInstructions looks up in the price map on a run that
\* reaches its return.
PriceKeysRead(list) ==
    UNION {{priceKey(NATIVE_MINT, list[x].blockTime),
            priceKey(CurrentPool.tokenMintA, list[x].blockTime),
            priceKey(CurrentPool.tokenMintB, list[x].blockTime)}
           \cup (IF list[x].type = "collectReward"
                 THEN {priceKey(tokenMap[list[x].rewardMint].mint, list[x].blockTime)}
                 ELSE {}) : x \in 1..Len(list)}
    \cup {priceKey(CurrentPool.tokenMintA, 0), priceKey(CurrentPool.tokenMintB, 0)}

\* C28: every price key the ledger reads while it accounts an event list
\* is in the key set computePriceFetchSet builds from the same events.
C28_PriceCoverage ==
    pc = "returned" => PriceKeysRead(instructions) \subseteq computePriceFetchSet(decoded)

\* The instructions the top-level instruction at an index called.
CallsOf(transaction, index) ==
    LET entries == IF transaction.meta = Undefined THEN <<>>
                   ELSE transaction.meta[1].innerInstructions
        at == {x \in 1..Len(entries) : entries[x].index = index}
    IN IF at = {} THEN <<>> ELSE entries[CHOOSE x \in at : TRUE].instructions

\* How many instructions come before the top-level instruction at an index.
RECURSIVE Offset(_, _)
Offset(transaction, index) ==
    IF index = 0 THEN 0
    ELSE Offset(transaction, index - 1) + 1 + Len(CallsOf(transaction, index - 1))

\* The instruction inside a gathered instruction.
Bare(gatheredInstruction) ==
    [f \in DOMAIN gatheredInstruction \ {"signature", "blockTime", "transactionFee"} |->
        gatheredInstruction[f]]

PreservesCallOrder(transaction, out) ==
    LET top == transaction.message.instructions
    IN IF TransactionFailed(transaction) THEN out = <<>>
       ELSE /\ Len(out) = Offset(transaction, Len(top))
            /\ \A index \in 0..(Len(top) - 1) :
                  /\ Bare(out[Offset(transaction, index) + 1]) = top[index + 1]
                  /\ \A call \in 1..Len(CallsOf(transaction, index)) :
                        Bare(out[Offset(transaction, index) + 1 + call])
                            = CallsOf(transaction, index)[call]
            /\ \A x \in 1..Len(out) :
                  /\ out[x].signature = transaction.signature
                  /\ transaction.blockTime # Undefined =>
                         out[x].blockTime = transaction.blockTime[1]
                  /\ transaction.meta # Undefined =>
                         out[x].transactionFee = transaction.meta[1].fee

\* C25: what extractInstructions adds for a transaction is its top-level
\* instructions in their order, the inner instructions of each spliced in,
\* in order, right after it and before the next top-level instruction, all
\* with the signature, block time and fee of the transaction; a failed
\* transaction adds nothing.
C25_CallOrder ==
    [][cursor' = cursor + 1 =>
          /\ SubSeq(extracted', 1, Len(extracted)) = extracted
          /\ PreservesCallOrder(transactionsAndInfos[cursor'],
                                SubSeq(extracted', Len(extracted) + 1, Len(extracted')))]_vars

\* A transaction was extracted whose first top-level instruction made two
\* calls and is followed by a second top-level instruction.
C25_Witness ==
    /\ extractPc = "extract"
    /\ cursor >= 1
    /\ \E x \in 1..Len(extracted) :
          /\ x + 3 <= Len(extracted)
          /\ extracted[x].level = "top" /\ extracted[x].index = 0
          /\ extracted[x + 1].level = "inner" /\ extracted[x + 1].call = 1
          /\ extracted[x + 2].level = "inner" /\ extracted[x + 2].call = 2
          /\ extracted[x + 3].level = "top" /\ extracted[x + 3].index = 1
          /\ extracted[x + 3].signature = extracted[x].signature

\* C29: gatherInstructions yields the instructions of a transaction once
\* under its signature, however many address histories list the signature.
C29_GatheredOnce ==
    extractPc = "done" =>
        \A s \in DOMAIN transactionInstructions :
            \A x, y \in 1..Len(transactionInstructions[s]) :
                x # y => transactionInstructions[s][x] # transactionInstructions[s][y]

====
